---- MODULE Spec2Model ----
(***************************************************************************)
(* A model of the ingestion-and-retrieval pipeline of DontREADME:          *)
(*   - HuggingFaceAPIEmbeddings (app/components/vectorstore.py): the       *)
(*     remote embedding call with retry, backoff and hash-derived fallback *)
(*   - SmartTextSplitter (utils/text_splitter.py): cleaning of the chunks  *)
(*     and their metadata                                                  *)
(*   - EnhancedVectorStoreManager (app/components/vectorstore.py): open,   *)
(*     reset and add on one persistent collection, alone and called by     *)
(*     several threads                                                     *)
(*   - PerformanceMonitor (utils/performance.py): the metrics history      *)
(*   - DocumentChatApp.process_document_enhanced (app/main.py): one        *)
(*     upload, from validation to the chain set-up                         *)
(*                                                                         *)
(* Numbers: a vector component is kept in units of 1e-4, so the fallback   *)
(* component 0.1 + h/10000.0 + j*0.001 is the integer 1000 + h + 10*j.     *)
(* Characters are one-character strings and a text is a sequence of them.  *)
(***************************************************************************)
EXTENDS Integers, Sequences, FiniteSets, TLC

VARIABLES
    \* ---- HuggingFaceAPIEmbeddings ----
    hashFn,          \* str.__hash__ of this process (seeded at interpreter start)
    pc,              \* "idle" | "call" (inside _call_api) | "done"
    op,              \* "none" | "embed_query" | "embed_documents"
    texts,           \* the argument of the running / last embed call
    i,               \* embed_documents: offset of the current batch (0-based)
    attempt,         \* _call_api: loop variable of `for attempt in range(max_retries)`
    trace,           \* _call_api: what each request of the current call met
    all_embeddings,  \* embed_documents: the vectors gathered so far
    api_value,       \* what the last finished _call_api returned
    api_fallback,    \* ... and whether that was the fallback's value
    result,          \* the value the last embed call returned
    raised,          \* an exception left the last embed call
    fakeLog,         \* per text: fallback vectors generated for it (first and latest)
    \* ---- SmartTextSplitter ----
    spc,             \* "idle" | "done"
    stext,           \* the text given to split_documents_with_metadata
    ssize,           \* the chunk_size given with it
    sraw,            \* what splitter.split_text returned for it
    schunks,         \* the chunks smart_split returned
    sdocs,           \* the documents split_documents_with_metadata returned
    \* ---- EnhancedVectorStoreManager ----
    vectorstore,     \* self.vectorstore: "None" or the bound collection's name
    collections,     \* the persistent store: collection name -> entries
    metrics_history, \* self.performance_monitor.metrics_history
    last,            \* the outcome of the last manager call
    io,              \* what the last manager call did outside the manager
    nops,            \* manager calls made so far
    \* ---- _filter_complex_metadata, called on its own ----
    fpc,             \* "idle" | "done"
    fdocs,           \* the documents given
    filtered_docs,   \* the documents returned
    \* ---- a PerformanceMonitor used by several threads ----
    mcap,            \* self.max_history
    mhistory,        \* self.metrics_history
    lock,            \* self._lock: 0 when free, else the thread that holds it
    clock,           \* datetime.now(), as the number of metrics built so far
    ncalls,          \* calls of the monitor started so far
    recorded,        \* the metrics appended since the last clear, in order
    tpc,             \* per thread: where it is in its call
    tcall,           \* per thread: the call it makes
    tmetrics,        \* per thread: the PerformanceMetrics its wrapper built
    tappends,        \* per thread: appends made by its current call
    tsnap,           \* per thread: filtered_metrics, the copy of the history
    tout,            \* per thread: what its last call returned or raised
    \* ---- detect_document_type, called on its own ----
    dtext,           \* the text given
    dlabels,         \* the labels returned for it, call after call
    \* ---- a record of the running embed call, batch by batch ----
    batches,         \* per batch begun: its offset, its requests, how it ended
    \* ---- EnhancedDocumentChatBot (app/main.py) ----
    apc,             \* process_document_enhanced: "idle", or the call it is about to make
    areq,            \* its arguments, and the chunks its add has stored
    current_document,   \* self.current_document: "None" or a file name
    document_processed, \* self.document_processed
    ingested,        \* the chunks stored by the call that set current_document
    astatus,         \* what the last process_document_enhanced returned
    nprocess,        \* process_document_enhanced calls made so far
    \* ---- one manager called by several threads ----
    cpc,             \* per thread: "idle", or the statement it is about to run
    cop,             \* per thread: the method it is in
    cout,            \* per thread: how its last call ended
    ccalls           \* calls started so far

embedVars == <<hashFn, pc, op, texts, i, attempt, trace, all_embeddings, api_value,
               api_fallback, result, raised, fakeLog>>
splitVars == <<spc, stext, ssize, sraw, schunks, sdocs>>
storeVars == <<vectorstore, collections, metrics_history, last, io, nops>>
filterVars == <<fpc, fdocs, filtered_docs>>
monVars == <<mcap, mhistory, lock, clock, ncalls, recorded, tpc, tcall, tmetrics,
             tappends, tsnap, tout>>
detectVars == <<dtext, dlabels>>
\* the state of the parts modelled on their own further down
appVars == <<apc, areq, current_document, document_processed, ingested, astatus, nprocess>>
concVars == <<cpc, cop, cout, ccalls>>
lateVars == <<detectVars, batches, appVars, concVars>>
vars == <<embedVars, splitVars, storeVars, filterVars, monVars, lateVars>>

(***************************************************************************)
(* Program constants                                                       *)
(***************************************************************************)
dimension == 384
\* a fault: one attempt more
max_retries_and_one == 3 + 1
\* def _call_api(self, texts, max_retries: int = 3)
max_retries == 3
batch_size == 10
HashModulus == 1000
\* the fallback component in units of 1e-4: 0.1, 1/10000.0 per hash unit, 0.001 per index
FakeOffset == 1000
FakeStep == 10
NetworkErrorSleep == 1

(***************************************************************************)
(* Bounds of the model                                                     *)
(***************************************************************************)
MaxBatches == 2
MaxLog == 2
MaxTextLen == 3
MaxOps == 3
MaxDocs == 2
MaxCap == 2
MaxCalls == 3
MaxThreads == 2
MaxWords == 4
MaxProcess == 2

(***************************************************************************)
(* Small helpers                                                           *)
(***************************************************************************)
RECURSIVE Pow2(_)
Pow2(n) == IF n = 0 THEN 1 ELSE 2 * Pow2(n - 1)

Min(a, b) == IF a < b THEN a ELSE b

\* Python's texts[lo:hi] on a list (0-based, hi exclusive, clipped)
Slice(s, lo, hi) == SubSeq(s, lo + 1, Min(hi, Len(s)))

Range(s) == {s[k] : k \in 1..Len(s)}

(***************************************************************************)
(* The texts to embed, and the hash of each in this process                *)
(***************************************************************************)
Texts == {"a", "b"}
OtherText(t) == IF t = "a" THEN "b" ELSE "a"

\* hash(str) is a signed 64-bit value keyed by the interpreter's hash seed:
\* representatives that are negative, congruent modulo 1000, and not.
HashValues == {-993, 7, 8}

\* hash(text)
PyHash(t) == hashFn[t]

\* the real embedding the endpoint computes for a text (negative components
\* keep it apart from every fallback vector)
RemoteVecs ==
    [t \in Texts |-> [j \in 1..dimension |-> IF t = "a" THEN -1 ELSE -2]]
RemoteVec(t) == RemoteVecs[t]

(***************************************************************************)
(* HuggingFaceAPIEmbeddings._generate_fake_embeddings                      *)
(***************************************************************************)
\* [0.1 + (text_hash / 10000.0) + (j * 0.001) for j in range(self.dimension)],
\* for every value text_hash can take (tabulated once)
FakeEmbeddings ==
    [text_hash \in 0..(HashModulus - 1) |->
        [j \in 1..dimension |-> FakeOffset + text_hash + FakeStep * (j - 1)]]

\* a fault: the hash is perturbed by the text's position in the batch
GenerateFakeEmbeddingsByPosition(ts) ==
    [k \in 1..Len(ts) |-> FakeEmbeddings[(PyHash(ts[k]) + k) % HashModulus]]

\* for text in texts: text_hash = hash(text) % 1000; embeddings.append(embedding)
GenerateFakeEmbeddings(ts) ==
    [k \in 1..Len(ts) |-> FakeEmbeddings[PyHash(ts[k]) % HashModulus]]

(***************************************************************************)
(* What the remote endpoint may answer to one POST of a batch.  A body is  *)
(* the JSON value response.json() yields, tagged with its JSON type:       *)
(*   "vectors"  a list whose elements are lists of numbers                 *)
(*   "flat"     a list of numbers (a single embedding)                     *)
(*   "empty"    the empty list                                             *)
(*   "object"   an object, such as {"error": ...}                          *)
(*   "invalid"  not JSON at all                                            *)
(***************************************************************************)
NoBody == [kind |-> "none", items |-> <<>>]

\* every vector cut to n components
Truncated(vs, n) == [k \in 1..Len(vs) |-> SubSeq(vs[k], 1, n)]

WellFormedBody(batch) ==
    [kind |-> "vectors", items |-> [k \in 1..Len(batch) |-> RemoteVec(batch[k])]]

\* the answers the model draws from, by name
ResponseKinds ==
    {"exception", "503", "500", "ok", "nodim", "flat", "empty", "object", "invalid"}

Response(sent, status, body) == [sent |-> sent, status |-> status, body |-> body]

\* requests.post either raises (timeout, connection error) or yields a response
ResponseOf(kind, batch) ==
    CASE kind = "exception" -> Response("exception", 0, NoBody)
      [] kind = "503" -> Response("response", 503, NoBody)
      [] kind = "500" -> Response("response", 500, NoBody)
      [] kind = "ok" -> Response("response", 200, WellFormedBody(batch))
      \* a vector without components for each text
      [] kind = "nodim" ->
            Response("response", 200,
                     [kind |-> "vectors",
                      items |-> Truncated(WellFormedBody(batch).items, 0)])
      \* a single embedding, whatever the size of the batch
      [] kind = "flat" ->
            Response("response", 200, [kind |-> "flat", items |-> RemoteVec(batch[1])])
      [] kind = "empty" -> Response("response", 200, [kind |-> "empty", items |-> <<>>])
      [] kind = "object" -> Response("response", 200, [kind |-> "object", items |-> <<>>])
      [] OTHER -> Response("response", 200, [kind |-> "invalid", items |-> <<>>])

\* response.json() raises
JsonRaises(body) == body.kind = "invalid"
\* embeddings[0] raises (IndexError on [], KeyError on an object)
FirstItemRaises(body) == body.kind \in {"empty", "object"}
\* isinstance(embeddings[0], list)
FirstItemIsList(body) == body.kind = "vectors"

(***************************************************************************)
(* One iteration of the loop of _call_api, for the response the request    *)
(* met: what the iteration does next ("return" a value, "continue" after a *)
(* sleep, "break" out of the loop, or "raise" out of _call_api).           *)
(***************************************************************************)
Ctl(ctl, value, sleep) == [ctl |-> ctl, value |-> value, sleep |-> sleep]

\* a fault: an exception ends the loop at once
ExceptBranchNoRetry(att) == Ctl("break", <<>>, 0)

\* the except branch: retry after 1 s while attempts remain, else break
ExceptBranch(att) ==
    IF att < max_retries - 1 THEN Ctl("continue", <<>>, NetworkErrorSleep)
    ELSE Ctl("break", <<>>, 0)

\* a fault: the backoff grows by one second per attempt instead of doubling
IterationLinearBackoff(resp, att) ==
    IF resp.sent = "exception" THEN ExceptBranch(att)
    ELSE IF resp.status = 200 THEN
        IF JsonRaises(resp.body) \/ FirstItemRaises(resp.body) THEN ExceptBranch(att)
        ELSE IF FirstItemIsList(resp.body) THEN Ctl("return", resp.body.items, 0)
        ELSE Ctl("return", <<resp.body.items>>, 0)
    ELSE IF resp.status = 503 THEN Ctl("continue", <<>>, att + 1)
    ELSE Ctl("break", <<>>, 0)

\* a fault: the body is read outside the try block
IterationUnguarded(resp, att) ==
    IF resp.sent = "exception" THEN ExceptBranch(att)
    ELSE IF resp.status = 200 THEN
        IF JsonRaises(resp.body) \/ FirstItemRaises(resp.body) THEN Ctl("raise", <<>>, 0)
        ELSE IF FirstItemIsList(resp.body) THEN Ctl("return", resp.body.items, 0)
        ELSE Ctl("return", <<resp.body.items>>, 0)
    ELSE IF resp.status = 503 THEN Ctl("continue", <<>>, Pow2(att))
    ELSE Ctl("break", <<>>, 0)

\* try: status 200 -> return the body (a lone embedding wrapped in a list);
\*      503 -> sleep(2 ** attempt), continue; any other status -> break
\* except Exception: sleep(1) and continue while attempt < max_retries - 1, else break
Iteration(resp, att) ==
    IF resp.sent = "exception" THEN ExceptBranch(att)
    ELSE IF resp.status = 200 THEN
        IF JsonRaises(resp.body) \/ FirstItemRaises(resp.body) THEN ExceptBranch(att)
        ELSE IF FirstItemIsList(resp.body) THEN Ctl("return", resp.body.items, 0)
        ELSE Ctl("return", <<resp.body.items>>, 0)
    ELSE IF resp.status = 503 THEN Ctl("continue", <<>>, Pow2(att))
    ELSE Ctl("break", <<>>, 0)

(***************************************************************************)
(* The embed calls.  A call runs from "idle" to "done"; each               *)
(* request of _call_api is one step, which carries the call on to the next *)
(* request or to its return.                                               *)
(***************************************************************************)
\* the batch of the running call: texts[i:i + batch_size], or [text]
Batch == IF op = "embed_documents" THEN Slice(texts, i, i + batch_size) ELSE texts

\* fakeLog after the fallback generated vs for the texts ts: per text the first
\* vector and the latest
RECURSIVE Logged(_, _, _)
Logged(log, ts, vs) ==
    IF ts = <<>> \/ vs = <<>> THEN log
    ELSE LET t == Head(ts)
             old == log[t]
             new == IF Len(old) < MaxLog THEN Append(old, Head(vs))
                    ELSE Append(SubSeq(old, 1, MaxLog - 1), Head(vs))
         IN  Logged([log EXCEPT ![t] = new], Tail(ts), Tail(vs))

\* _call_api returned `value` (fake: it is the fallback's): the caller goes on.
\*   embed_query:     return embeddings[0] if embeddings else fake([text])[0]
\*   embed_documents: all_embeddings.extend(value); next batch, or return
CallApiReturns(value, fake) ==
    LET log1 == IF fake THEN Logged(fakeLog, Batch, value) ELSE fakeLog
    IN
    /\ raised' = FALSE
    /\ api_value' = value
    /\ api_fallback' = fake
    /\ UNCHANGED <<hashFn, op, texts>>
    /\ IF op = "embed_query" THEN
          /\ result' = IF value # <<>> THEN value[1]
                       ELSE GenerateFakeEmbeddings(texts)[1]
          /\ fakeLog' = IF value # <<>> THEN log1
                        ELSE Logged(log1, texts, GenerateFakeEmbeddings(texts))
          /\ pc' = "done"
          /\ UNCHANGED <<i, attempt, all_embeddings>>
       ELSE
          /\ all_embeddings' = all_embeddings \o value
          /\ fakeLog' = log1
          /\ i' = i + batch_size
          /\ IF i + batch_size < Len(texts)
             THEN /\ pc' = "call"
                  /\ attempt' = 0
                  /\ result' = result
             ELSE /\ pc' = "done"
                  /\ attempt' = attempt
                  /\ result' = all_embeddings \o value

\* an exception leaves _call_api and the embed call
CallRaises ==
    /\ raised' = TRUE
    /\ pc' = "done"
    /\ result' = <<>>
    /\ UNCHANGED <<hashFn, op, texts, i, attempt, all_embeddings, api_value,
                   api_fallback, fakeLog>>

\* the input lists: n texts, alternating from `first`
InputList(n, first) ==
    [k \in 1..n |-> IF k % 2 = 1 THEN first ELSE OtherText(first)]

\* lengths around the batch size: 0, 1, 2, and a full batch or one text more
InputLengths ==
    {0, 1, 2, batch_size, batch_size + 1, MaxBatches * batch_size + 1}

\* the short lists over Texts
ShortLists == {<<>>} \cup {<<t>> : t \in Texts} \cup {<<t, u>> : t, u \in Texts}

EmbedQuery(t) ==
    /\ pc = "idle"
    /\ op' = "embed_query"
    /\ texts' = <<t>>
    /\ pc' = "call"
    /\ i' = 0
    /\ attempt' = 0
    /\ trace' = <<>>
    /\ all_embeddings' = <<>>
    /\ api_value' = <<>>
    /\ api_fallback' = FALSE
    /\ result' = <<>>
    /\ raised' = FALSE
    /\ UNCHANGED <<hashFn, fakeLog>>

EmbedDocuments(ts) ==
    /\ pc = "idle"
    /\ op' = "embed_documents"
    /\ texts' = ts
    \* range(0, len(texts), batch_size) is empty for no text: return []
    /\ pc' = IF ts = <<>> THEN "done" ELSE "call"
    /\ i' = 0
    /\ attempt' = 0
    /\ trace' = <<>>
    /\ all_embeddings' = <<>>
    /\ api_value' = <<>>
    /\ api_fallback' = FALSE
    /\ result' = <<>>
    /\ raised' = FALSE
    /\ UNCHANGED <<hashFn, fakeLog>>

\* one request of _call_api and all that follows it up to the next request
Attempt(kind) ==
    /\ pc = "call"
    /\ LET resp == ResponseOf(kind, Batch)
           it == Iteration(resp, attempt)
           entry == [attempt |-> attempt, sent |-> resp.sent, status |-> resp.status,
                     ctl |-> it.ctl, sleep |-> it.sleep]
           started == IF attempt = 0 THEN <<>> ELSE trace
       IN
       /\ trace' = Append(started, entry)
       /\ CASE it.ctl = "return" -> CallApiReturns(it.value, FALSE)
            [] it.ctl = "raise" -> CallRaises
            [] it.ctl = "continue" /\ attempt + 1 < max_retries ->
                  /\ attempt' = attempt + 1
                  /\ UNCHANGED <<hashFn, pc, op, texts, i, all_embeddings, api_value,
                                 api_fallback, result, raised, fakeLog>>
            \* the loop is over (break, or no attempt is left): the fallback
            [] OTHER -> CallApiReturns(GenerateFakeEmbeddings(Batch), TRUE)

\* the caller has the result; the instance serves the next call
Return ==
    /\ pc = "done"
    /\ pc' = "idle"
    /\ UNCHANGED <<hashFn, op, texts, i, attempt, trace, all_embeddings, api_value,
                   api_fallback, result, raised, fakeLog>>

InitEmbed ==
    /\ hashFn \in [Texts -> HashValues]
    /\ pc = "idle"
    /\ op = "none"
    /\ texts = <<>>
    /\ i = 0
    /\ attempt = 0
    /\ trace = <<>>
    /\ all_embeddings = <<>>
    /\ api_value = <<>>
    /\ api_fallback = FALSE
    /\ result = <<>>
    /\ raised = FALSE
    /\ fakeLog = [t \in Texts |-> <<>>]

InitSplit ==
    /\ spc = "idle"
    /\ stext = <<>>
    /\ ssize = 0
    /\ sraw = <<>>
    /\ schunks = <<>>
    /\ sdocs = <<>>

\* Config.COLLECTION_NAME, and another name a caller may give
DefaultCollection == "document_embeddings"
CollectionNames == {DefaultCollection, "test_collection"}

\* a Python value given as an argument: its type and, for the numeric types,
\* its value (True is 1, 1000.0 is 1000), for a str its text
PyValue(type, value) == [type |-> type, value |-> value, text |-> ""]
PyInt(n) == PyValue("int", n)
PyStr(s) == [type |-> "str", value |-> 0, text |-> s]
PyNone == PyValue("NoneType", 0)

\* the summary of a call that returns none
NoInfo == [total_chunks |-> 0, document_type |-> "", average_chunk_size |-> <<0, 1>>,
           keywords_extracted |-> FALSE, structure_preserved |-> 0]

NoCall == [op |-> "none", outcome |-> "none", error |-> "", count |-> 0,
           text |-> <<>>, cuts |-> {}, overlap |-> 0, arg |-> PyNone, info |-> NoInfo]

\* a manager just constructed, over an empty data directory
InitStore ==
    /\ vectorstore = "None"
    /\ collections = [name \in CollectionNames |-> [exists |-> FALSE, entries |-> <<>>]]
    /\ metrics_history = <<>>
    /\ last = NoCall
    /\ io = {}
    /\ nops = 0

InitFilter ==
    /\ fpc = "idle"
    /\ fdocs = <<>>
    /\ filtered_docs = <<>>

\* no text has been given to detect_document_type yet
InitDetect ==
    /\ dtext = <<>>
    /\ dlabels = <<>>

\* no request is being processed
NoRequest == [filename |-> "", text |-> <<>>, chunk_size |-> PyNone, k |-> PyNone,
              chunks |-> <<>>]

\* EnhancedDocumentChatBot.__init__
InitApp ==
    /\ apc = "idle"
    /\ areq = NoRequest
    /\ current_document = "None"
    /\ document_processed = FALSE
    /\ ingested = <<>>
    /\ astatus = "none"
    /\ nprocess = 0

\* the threads that share an object
Threads == 1..MaxThreads

\* no thread is in a call of the manager
InitThreads ==
    /\ cpc = [t \in Threads |-> "idle"]
    /\ cop = [t \in Threads |-> "none"]
    /\ cout = [t \in Threads |-> "none"]
    /\ ccalls = 0

InitLate == InitDetect /\ batches = <<>> /\ InitApp /\ InitThreads

NoMetrics == [timestamp |-> 0, operation |-> "", success |-> TRUE, error_message |-> "None"]
NoOutcome == [kind |-> "none", value |-> "", summary |-> <<>>]
NoMonitorCall == [kind |-> "none", operation |-> "", raises |-> FALSE]

\* PerformanceMonitor.__init__(max_history)
InitMonitor(max_history_given) ==
    /\ mcap = max_history_given
    /\ mhistory = <<>>
    /\ lock = 0
    /\ clock = 0
    /\ ncalls = 0
    /\ recorded = <<>>
    /\ tpc = [t \in Threads |-> "idle"]
    /\ tcall = [t \in Threads |-> NoMonitorCall]
    /\ tmetrics = [t \in Threads |-> NoMetrics]
    /\ tappends = [t \in Threads |-> 0]
    /\ tsnap = [t \in Threads |-> <<>>]
    /\ tout = [t \in Threads |-> NoOutcome]

\* def __init__(self, max_history: int = 100)
max_history == 100

Init ==
    InitEmbed /\ InitSplit /\ InitStore /\ InitFilter /\ InitMonitor(max_history) /\ InitLate

\* one embed call on a fresh instance, over lists of every length
NextEmbed ==
    \/ \E t \in Texts : EmbedQuery(t)
    \/ \E n \in InputLengths : EmbedDocuments(InputList(n, "a"))
    \/ \E kind \in ResponseKinds : Attempt(kind)

SpecEmbed == Init /\ [][NextEmbed /\ UNCHANGED <<splitVars, storeVars, filterVars, monVars, lateVars>>]_vars

\* what a step of an embed call adds to the record of its batches: a call
\* starts with none; a request is counted for the batch at offset i, begun
\* by the request of attempt 0; the batch is over when _call_api has returned
\* (by the fallback or not) or raised
RecordBatches ==
    batches' =
        IF pc # "call" THEN <<>>
        ELSE LET begun == IF attempt = 0
                          THEN Append(batches, [offset |-> i, requests |-> 0,
                                                over |-> FALSE, fallback |-> FALSE,
                                                vectors |-> <<>>])
                          ELSE batches
                 over == pc' = "done" \/ i' # i
             IN  [begun EXCEPT ![Len(begun)] =
                     [offset |-> @.offset,
                      requests |-> @.requests + 1,
                      over |-> over,
                      fallback |-> over /\ ~raised' /\ api_fallback',
                      vectors |-> IF over /\ ~raised' THEN api_value' ELSE <<>>]]

\* one embed call on a fresh instance, its batches recorded
\* (the hash function is any one: it is the same for every batch)
SpecEmbedBatches ==
    /\ Init /\ hashFn = [t \in Texts |-> 7]
    /\ [][NextEmbed /\ RecordBatches
           /\ UNCHANGED <<splitVars, storeVars, filterVars, monVars, detectVars, appVars,
                       concVars>>]_vars

\* call after call on one instance, over short lists
NextEmbedRepeat ==
    \/ \E t \in Texts : EmbedQuery(t)
    \/ \E ts \in ShortLists : EmbedDocuments(ts)
    \/ \E kind \in ResponseKinds : Attempt(kind)
    \/ Return

SpecEmbedRepeat ==
    Init /\ [][NextEmbedRepeat /\ UNCHANGED <<splitVars, storeVars, filterVars, monVars, lateVars>>]_vars

(***************************************************************************)
(* SmartTextSplitter.  A text is a sequence of characters over an alphabet *)
(* with one member of each class the regular expressions tell apart:       *)
(*   "a" a lower-case letter, "A" a capital, " " and "\n" whitespace,      *)
(*   "." sentence punctuation ([.!?]), "," clause punctuation ([;:,]).     *)
(***************************************************************************)
Chars == {"a", "A", " ", "\n", ".", ","}

\* \s
IsSpace(c) == c \in {" ", "\n"}
\* [.!?]
IsSentenceEnd(c) == c = "."
\* [A-Z]
IsCapital(c) == c \in
    {"A", "B", "C", "D", "E", "F", "G", "H", "I", "J", "K", "L", "M", "N", "O", "P",
     "Q", "R", "S", "T", "U", "V", "W", "X", "Y", "Z"}
\* [.!?;:,\s]
IsSeparator(c) == c \in {".", ",", " ", "\n"}

RECURSIVE LStrip(_)
LStrip(s) == IF s # <<>> /\ IsSpace(Head(s)) THEN LStrip(Tail(s)) ELSE s

RECURSIVE RStrip(_)
RStrip(s) ==
    IF s # <<>> /\ IsSpace(s[Len(s)]) THEN RStrip(SubSeq(s, 1, Len(s) - 1)) ELSE s

\* str.strip()
Strip(s) == RStrip(LStrip(s))

\* the length of the longest run of whitespace s starts with
RECURSIVE SpaceRun(_)
SpaceRun(s) == IF s # <<>> /\ IsSpace(Head(s)) THEN 1 + SpaceRun(Tail(s)) ELSE 0

\* re.sub(r'\s+', ' ', text)
RECURSIVE CollapseSpaces(_)
CollapseSpaces(s) ==
    IF s = <<>> THEN <<>>
    ELSE IF IsSpace(Head(s))
         THEN <<" ">> \o CollapseSpaces(SubSeq(s, SpaceRun(s) + 1, Len(s)))
         ELSE <<Head(s)>> \o CollapseSpaces(Tail(s))

\* the positions of the line breaks among the first n characters of s
NewlinesIn(s, n) == {k \in 1..n : s[k] = "\n"}

SetMax(S) == CHOOSE x \in S : \A y \in S : y <= x

\* re.sub of a pattern \n\s*\n (n = 2) or \n\s*\n\s*\n (n = 3) by '\n\n': a
\* match starts at a line break whose whitespace run holds at least n line
\* breaks, and (the quantifiers being greedy) ends at the last of them
RECURSIVE CollapseBlankLines(_, _)
CollapseBlankLines(s, n) ==
    IF s = <<>> THEN <<>>
    ELSE IF Head(s) = "\n" /\ Cardinality(NewlinesIn(s, SpaceRun(s))) >= n
         THEN <<"\n", "\n">>
              \o CollapseBlankLines(
                    SubSeq(s, SetMax(NewlinesIn(s, SpaceRun(s))) + 1, Len(s)), n)
         ELSE <<Head(s)>> \o CollapseBlankLines(Tail(s), n)

\* re.sub(r'([.!?])\s*([A-Z])', r'\1\n\2', text)
RECURSIVE BreakSentences(_)
BreakSentences(s) ==
    IF s = <<>> THEN <<>>
    ELSE LET run == SpaceRun(Tail(s))
         IN  IF IsSentenceEnd(Head(s)) /\ Len(s) >= run + 2 /\ IsCapital(s[run + 2])
             THEN <<Head(s), "\n", s[run + 2]>>
                  \o BreakSentences(SubSeq(s, run + 3, Len(s)))
             ELSE <<Head(s)>> \o BreakSentences(Tail(s))

\* _preprocess_text
PreprocessText(text) ==
    Strip(BreakSentences(CollapseBlankLines(CollapseSpaces(text), 2)))

\* re.sub(r'^[.!?;:,\s]+', '', chunk)
RECURSIVE DropLeadingSeparators(_)
DropLeadingSeparators(s) ==
    IF s # <<>> /\ IsSeparator(Head(s)) THEN DropLeadingSeparators(Tail(s)) ELSE s

\* _clean_chunk
CleanChunk(chunk) == DropLeadingSeparators(CollapseBlankLines(Strip(chunk), 3))

(***************************************************************************)
(* splitter.split_text is the library's (RecursiveCharacterTextSplitter).  *)
(* Here it may cut the text at any set of positions and start each chunk   *)
(* but the first `overlap` characters early; it yields no chunk for the    *)
(* empty text.                                                             *)
(***************************************************************************)
RECURSIVE Pieces(_, _, _, _)
Pieces(text, from, cuts, overlap) ==
    IF from > Len(text) THEN <<>>
    ELSE LET later == {c \in cuts : c >= from /\ c < Len(text)}
             to == IF later = {} THEN Len(text)
                   ELSE CHOOSE c \in later : \A d \in later : c <= d
             start == IF from - overlap >= 1 THEN from - overlap ELSE from
         IN  <<SubSeq(text, start, to)>> \o Pieces(text, to + 1, cuts, overlap)

SplitText(text, cuts, overlap) == Pieces(text, 1, cuts, overlap)

\* the chunks of a list that are not blank: [c for c in chunks if c.strip()]
RECURSIVE NonBlank(_)
NonBlank(chunks) ==
    IF chunks = <<>> THEN <<>>
    ELSE IF Strip(Head(chunks)) # <<>> THEN <<Head(chunks)>> \o NonBlank(Tail(chunks))
         ELSE NonBlank(Tail(chunks))

\* smart_split, from what split_text returned for the preprocessed text
SmartSplit(raw) == NonBlank([k \in 1..Len(raw) |-> CleanChunk(raw[k])])

\* a fault: the end is looked for first
ChunkPositionEndFirst(k, n) ==
    IF k = n - 1 THEN "end" ELSE IF k = 0 THEN "start" ELSE "middle"

\* "start" if i == 0 else ("end" if i == len(chunks) - 1 else "middle")
ChunkPosition(k, n) ==
    IF k = 0 THEN "start" ELSE IF k = n - 1 THEN "end" ELSE "middle"

\* str.lower
Lower(c) ==
    CASE c = "A" -> "a"
      [] c = "B" -> "b"
      [] c = "C" -> "c"
      [] c = "D" -> "d"
      [] c = "E" -> "e"
      [] c = "F" -> "f"
      [] c = "G" -> "g"
      [] c = "H" -> "h"
      [] c = "I" -> "i"
      [] c = "J" -> "j"
      [] c = "K" -> "k"
      [] c = "L" -> "l"
      [] c = "M" -> "m"
      [] c = "N" -> "n"
      [] c = "O" -> "o"
      [] c = "P" -> "p"
      [] c = "Q" -> "q"
      [] c = "R" -> "r"
      [] c = "S" -> "s"
      [] c = "T" -> "t"
      [] c = "U" -> "u"
      [] c = "V" -> "v"
      [] c = "W" -> "w"
      [] c = "X" -> "x"
      [] c = "Y" -> "y"
      [] c = "Z" -> "z"
      [] c = "É" -> "é" [] c = "À" -> "à" [] OTHER -> c

LowerText(text) == [p \in 1..Len(text) |-> Lower(text[p])]

\* `keyword in text_lower`
Contains(keyword, text) ==
    \E p \in 1..(Len(text) - Len(keyword) + 1) :
        \A q \in 1..Len(keyword) : text[p + q - 1] = keyword[q]

academic_keywords ==
    { <<"a", "b", "s", "t", "r", "a", "c", "t">>,
      <<"r", "é", "s", "u", "m", "é">>,
      <<"i", "n", "t", "r", "o", "d", "u", "c", "t", "i", "o", "n">>,
      <<"c", "o", "n", "c", "l", "u", "s", "i", "o", "n">>,
      <<"r", "é", "f", "é", "r", "e", "n", "c", "e", "s">>,
      <<"b", "i", "b", "l", "i", "o", "g", "r", "a", "p", "h", "i", "e">> }
technical_keywords ==
    { <<"a", "p", "i">>,
      <<"f", "o", "n", "c", "t", "i", "o", "n">>,
      <<"c", "l", "a", "s", "s">>,
      <<"d", "e", "f", " ">>,
      <<"i", "m", "p", "o", "r", "t">>,
      <<"d", "o", "c", "u", "m", "e", "n", "t", "a", "t", "i", "o", "n">>,
      <<"m", "a", "n", "u", "e", "l">> }
legal_keywords ==
    { <<"a", "r", "t", "i", "c", "l", "e">>,
      <<"c", "l", "a", "u", "s", "e">>,
      <<"a", "l", "i", "n", "é", "a">>,
      <<"c", "o", "n", "s", "i", "d", "é", "r", "a", "n", "t">>,
      <<"a", "t", "t", "e", "n", "d", "u">>,
      <<"a", "r", "r", "ê", "t", "é">> }
MinTypeScore == 2

\* sum(1 for keyword in keywords if keyword in text_lower)
KeywordScore(keywords, text_lower) ==
    Cardinality({keyword \in keywords : Contains(keyword, text_lower)})

\* a fault: one keyword is enough for a type
DetectDocumentTypeNoThreshold(text) ==
    LET text_lower == LowerText(text)
        academic_score == KeywordScore(academic_keywords, text_lower)
        technical_score == KeywordScore(technical_keywords, text_lower)
        legal_score == KeywordScore(legal_keywords, text_lower)
        max_score == SetMax({academic_score, technical_score, legal_score})
    IN  IF max_score >= 1
        THEN IF academic_score = max_score THEN "academic"
             ELSE IF technical_score = max_score THEN "technical"
             ELSE "legal"
        ELSE "default"

\* detect_document_type: max(scores, key=scores.get) is the first of
\* academic, technical, legal that has the highest score
DetectDocumentType(text) ==
    LET text_lower == LowerText(text)
        academic_score == KeywordScore(academic_keywords, text_lower)
        technical_score == KeywordScore(technical_keywords, text_lower)
        legal_score == KeywordScore(legal_keywords, text_lower)
        max_score == SetMax({academic_score, technical_score, legal_score})
    IN  IF max_score >= MinTypeScore
        THEN IF academic_score = max_score THEN "academic"
             ELSE IF technical_score = max_score THEN "technical"
             ELSE "legal"
        ELSE "default"

\* the words of the texts given to detect_document_type on its own: two
\* keywords of each type (one capitalised, and "def", a keyword only when a
\* space follows it) and a word that is no keyword
DetectWords ==
    { <<"a", "b", "s", "t", "r", "a", "c", "t">>,
      <<"r", "é", "s", "u", "m", "é">>,
      <<"a", "p", "i">>,
      <<"d", "e", "f">>,
      <<"A", "r", "t", "i", "c", "l", "e">>,
      <<"c", "l", "a", "u", "s", "e">>,
      <<"x">> }

\* ' '.join(words)
RECURSIVE Joined(_)
Joined(words) ==
    IF words = <<>> THEN <<>>
    ELSE IF Len(words) = 1 THEN words[1]
    ELSE words[1] \o <<" ">> \o Joined(Tail(words))

\* the texts of at most MaxWords words
DetectTexts == {Joined(words) : words \in UNION {[1..n -> DetectWords] : n \in 0..MaxWords}}

\* detect_document_type(text), the first call with this text
DetectCall(text) ==
    /\ dlabels = <<>>
    /\ dtext' = text
    /\ dlabels' = <<DetectDocumentType(text)>>

\* detect_document_type(text) again, with the same text
DetectAgain ==
    /\ dlabels # <<>> /\ Len(dlabels) < MaxLog
    /\ dtext' = dtext
    /\ dlabels' = Append(dlabels, DetectDocumentType(dtext))

NextDetect ==
    \/ \E text \in DetectTexts : DetectCall(text)
    \/ DetectAgain

\* detect_document_type alone
SpecDetect ==
    /\ Init /\ hashFn = [t \in Texts |-> 7]
    /\ [][NextDetect /\ UNCHANGED <<embedVars, splitVars, storeVars, filterVars, monVars, batches, appVars,
                       concVars>>]_vars

IsDigit(c) == c \in {"0", "1", "2", "3", "4", "5", "6", "7", "8", "9"}
\* the letters of the class [a-zA-Z...] of _extract_keywords, after lower()
IsLetter(c) == Lower(c) \in
    {"a", "b", "c", "d", "e", "f", "g", "h", "i", "j", "k", "l", "m", "n", "o", "p",
     "q", "r", "s", "t", "u", "v", "w", "x", "y", "z", "à", "â", "ä", "é", "è", "ê",
     "ë", "ï", "î", "ô", "ö", "ù", "û", "ü", "ÿ", "ç"}
\* \w
IsWordChar(c) == IsLetter(c) \/ IsDigit(c) \/ c = "_"

\* ^ under re.MULTILINE: the start of the chunk or just after a newline
LineStart(chunk, p) == p = 1 \/ (p > 1 /\ p <= Len(chunk) + 1 /\ chunk[p - 1] = "\n")

\* _has_structure_markers: ^\d+\. , ^[A-Z][.] , ^-\s , ^\*\s , ^\w+:\s
HasStructureMarkers(chunk) ==
    \E p \in 1..Len(chunk) :
        /\ LineStart(chunk, p)
        /\ \/ \E q \in (p + 1)..Len(chunk) :
                 /\ chunk[q] = "."
                 /\ \A r \in p..(q - 1) : IsDigit(chunk[r])
           \/ p < Len(chunk) /\ IsCapital(chunk[p]) /\ chunk[p + 1] = "."
           \/ p < Len(chunk) /\ chunk[p] \in {"-", "*"} /\ IsSpace(chunk[p + 1])
           \/ \E q \in (p + 1)..(Len(chunk) - 1) :
                 /\ chunk[q] = ":"
                 /\ IsSpace(chunk[q + 1])
                 /\ \A r \in p..(q - 1) : IsWordChar(chunk[r])

stop_words ==
    { <<"l", "e">>,
      <<"l", "a">>,
      <<"l", "e", "s">>,
      <<"u", "n">>,
      <<"u", "n", "e">>,
      <<"d", "e", "s">>,
      <<"d", "e">>,
      <<"d", "u">>,
      <<"e", "t">>,
      <<"o", "u">>,
      <<"à">>,
      <<"d", "a", "n", "s">>,
      <<"s", "u", "r">>,
      <<"p", "o", "u", "r">>,
      <<"p", "a", "r">>,
      <<"a", "v", "e", "c">>,
      <<"s", "a", "n", "s">>,
      <<"s", "o", "u", "s">>,
      <<"q", "u", "e">>,
      <<"q", "u", "i">>,
      <<"q", "u", "o", "i">>,
      <<"d", "o", "n", "t">>,
      <<"o", "ù">>,
      <<"c", "e">>,
      <<"c", "e", "t", "t", "e">>,
      <<"c", "e", "s">>,
      <<"e", "s", "t">>,
      <<"s", "o", "n", "t">>,
      <<"t", "h", "e">>,
      <<"a">>,
      <<"a", "n">>,
      <<"a", "n", "d">>,
      <<"o", "r">>,
      <<"b", "u", "t">>,
      <<"i", "n">>,
      <<"o", "n">>,
      <<"a", "t">>,
      <<"t", "o">>,
      <<"f", "o", "r">>,
      <<"o", "f">>,
      <<"w", "i", "t", "h">>,
      <<"b", "y">>,
      <<"i", "s">>,
      <<"a", "r", "e">> }
max_keywords == 5
MinWordLen == 3

\* re.findall(r'\b[letters]{3,}\b', chunk.lower()): the runs of word
\* characters that are letters only and at least 3 long, as <<from, to>>
WordSpans(lowered) ==
    { span \in (1..Len(lowered)) \X (1..Len(lowered)) :
        /\ span[2] - span[1] + 1 >= MinWordLen
        /\ \A r \in span[1]..span[2] : IsLetter(lowered[r])
        /\ span[1] = 1 \/ ~IsWordChar(lowered[span[1] - 1])
        /\ span[2] = Len(lowered) \/ ~IsWordChar(lowered[span[2] + 1]) }

\* the words found, in the order of the text
RECURSIVE WordsFrom(_, _, _)
WordsFrom(lowered, spans, from) ==
    LET rest == {span \in spans : span[1] >= from}
    IN  IF rest = {} THEN <<>>
        ELSE LET first == CHOOSE span \in rest : \A o \in rest : span[1] <= o[1]
             IN  <<SubSeq(lowered, first[1], first[2])>>
                     \o WordsFrom(lowered, spans, first[2] + 1)

\* the keys of word_freq in insertion order
RECURSIVE FirstOccurrences(_)
FirstOccurrences(words) ==
    IF words = <<>> THEN <<>>
    ELSE LET before == FirstOccurrences(SubSeq(words, 1, Len(words) - 1))
             w == words[Len(words)]
         IN  IF \E n \in 1..Len(before) : before[n] = w THEN before ELSE Append(before, w)

Count(words, w) == Cardinality({n \in 1..Len(words) : words[n] = w})

\* sorted(word_freq.items(), key=lambda x: x[1], reverse=True): stable, so
\* equal counts keep the insertion order
RECURSIVE SortedByCount(_, _)
SortedByCount(keys, words) ==
    IF keys = <<>> THEN <<>>
    ELSE LET best == CHOOSE n \in 1..Len(keys) :
                        /\ \A o \in 1..Len(keys) : Count(words, keys[o]) <= Count(words, keys[n])
                        /\ \A o \in 1..(n - 1) : Count(words, keys[o]) < Count(words, keys[n])
         IN  <<keys[best]>>
                 \o SortedByCount(SubSeq(keys, 1, best - 1) \o SubSeq(keys, best + 1, Len(keys)),
                                  words)

\* _extract_keywords(chunk)
ExtractKeywords(chunk) ==
    LET lowered == LowerText(chunk)
        found == WordsFrom(lowered, WordSpans(lowered), 1)
        words == SelectSeq(found, LAMBDA w : w \notin stop_words /\ Len(w) > 2)
        sorted_words == SortedByCount(FirstOccurrences(words), words)
    IN  SubSeq(sorted_words, 1, Min(max_keywords, Len(sorted_words)))

\* a fault: the chunks are numbered from 1
ChunkMetadataOneBased(k, chunks, filename, doc_type) ==
    [filename |-> filename,
     chunk_id |-> k + 1,
     total_chunks |-> Len(chunks),
     document_type |-> doc_type,
     chunk_size |-> Len(chunks[k + 1]),
     chunk_position |-> ChunkPosition(k, Len(chunks)),
     contains_structure |-> HasStructureMarkers(chunks[k + 1]),
     keywords |-> ExtractKeywords(chunks[k + 1])]

\* the metadata of chunk k (0-based) of chunks; keywords is <<>> where the
\* dict has no "keywords" key
ChunkMetadata(k, chunks, filename, doc_type) ==
    [filename |-> filename,
     chunk_id |-> k,
     total_chunks |-> Len(chunks),
     document_type |-> doc_type,
     chunk_size |-> Len(chunks[k + 1]),
     chunk_position |-> ChunkPosition(k, Len(chunks)),
     contains_structure |-> HasStructureMarkers(chunks[k + 1]),
     keywords |-> ExtractKeywords(chunks[k + 1])]

\* split_documents_with_metadata, from the chunks smart_split returned
DocumentsWithMetadata(chunks, filename, doc_type) ==
    [k \in 1..Len(chunks) |->
        [page_content |-> chunks[k],
         metadata |-> ChunkMetadata(k - 1, chunks, filename, doc_type)]]

\* the texts of at most MaxTextLen characters
TextsUpTo(n) == UNION {[1..m -> Chars] : m \in 0..n}

\* the chunk sizes validate_chunk_size accepts, at and between its limits
ValidChunkSizes == {100, 1000, 4000}

SplitDocumentsWithMetadata(text, chunk_size, cuts, overlap) ==
    /\ stext' = text
    /\ ssize' = chunk_size
    /\ sraw' = SplitText(PreprocessText(text), cuts, overlap)
    /\ schunks' = SmartSplit(sraw')
    /\ sdocs' = DocumentsWithMetadata(schunks', "doc.txt", DetectDocumentType(text))
    /\ spc' = "done"

\* one call of split_documents_with_metadata
NextSplit ==
    /\ spc = "idle"
    /\ \E text \in TextsUpTo(MaxTextLen), chunk_size \in ValidChunkSizes,
          cuts \in SUBSET (1..MaxTextLen), overlap \in {0, 1} :
           SplitDocumentsWithMetadata(text, chunk_size, cuts, overlap)

\* the splitter alone (it never hashes a text: one hash function stands for all)
SpecSplit ==
    /\ Init /\ hashFn = [t \in Texts |-> 7]
    /\ [][NextSplit /\ UNCHANGED <<embedVars, storeVars, filterVars, monVars, lateVars>>]_vars

(***************************************************************************)
(* EnhancedVectorStoreManager.  The storage layer (chromadb, langchain's   *)
(* Chroma) is the library's: opening a client, deleting or creating a      *)
(* collection and adding documents each either succeed or raise.           *)
(***************************************************************************)
MinChunkSize == 100
MaxChunkSize == 4000

\* history[-n:] for n >= 0: the last n entries, and all of them when n is 0
\* (-0 is 0) or exceeds the length
LastEntries(history, n) ==
    IF n = 0 \/ n >= Len(history) THEN history
    ELSE SubSeq(history, Len(history) - n + 1, Len(history))

\* _add_metrics, the part after the append
Trimmed(history, cap) ==
    IF Len(history) > cap THEN LastEntries(history, cap) ELSE history

\* PerformanceMonitor._add_metrics on the manager's monitor: append, and keep
\* the last max_history
AddMetrics(history, operation, success, error_message) ==
    Trimmed(Append(history, [operation |-> operation, success |-> success,
                             error_message |-> error_message]), max_history)

\* isinstance(x, int): bool is a subclass of int
IsInstanceInt(x) == x.type \in {"int", "bool"}

\* a fault: the type test is left out
ValidateChunkSizeAnyType(chunk_size) ==
    IF chunk_size.value < MinChunkSize
    THEN [valid |-> FALSE, error |-> "Taille des chunks trop petite (minimum 100)"]
    ELSE IF chunk_size.value > MaxChunkSize
    THEN [valid |-> FALSE, error |-> "Taille des chunks trop grande (maximum 4000)"]
    ELSE [valid |-> TRUE, error |-> ""]

\* InputValidator.validate_chunk_size
ValidateChunkSize(chunk_size) ==
    IF ~IsInstanceInt(chunk_size)
    THEN [valid |-> FALSE, error |-> "La taille des chunks doit être un nombre entier"]
    ELSE IF chunk_size.value < MinChunkSize
    THEN [valid |-> FALSE, error |-> "Taille des chunks trop petite (minimum 100)"]
    ELSE IF chunk_size.value > MaxChunkSize
    THEN [valid |-> FALSE, error |-> "Taille des chunks trop grande (maximum 4000)"]
    ELSE [valid |-> TRUE, error |-> ""]

(***************************************************************************)
(* Metadata values as Python has them: a type, and the number (int, float  *)
(* n.0, bool), the text (str; a sequence of pieces of text), the items     *)
(* (list; the values of a dict) and the keys (dict) that the type uses.    *)
(***************************************************************************)
Value(type, value, text, keys, items) ==
    [type |-> type, value |-> value, text |-> text, keys |-> keys, items |-> items]
MStr(text) == Value("str", 0, text, <<>>, <<>>)
MInt(n) == Value("int", n, <<>>, <<>>, <<>>)
MFloat(n) == Value("float", n, <<>>, <<>>, <<>>)
MBool(b) == Value("bool", IF b THEN 1 ELSE 0, <<>>, <<>>, <<>>)
MNone == Value("NoneType", 0, <<>>, <<>>, <<>>)
MList(items) == Value("list", 0, <<>>, <<>>, items)
MDict(keys, items) == Value("dict", 0, <<>>, keys, items)
\* a value of another type (a tuple, a set), with the text str() gives for it
MOther(text) == Value("tuple", 0, text, <<>>, <<>>)

\* isinstance(value, (str, int, float, bool)) or value is None
ScalarTypes == {"str", "int", "float", "bool", "NoneType"}

DigitChars == <<"0", "1", "2", "3", "4", "5", "6", "7", "8", "9">>
RECURSIVE NatStr(_)
NatStr(n) == IF n < 10 THEN <<DigitChars[n + 1]>>
             ELSE NatStr(n \div 10) \o <<DigitChars[(n % 10) + 1]>>
IntStr(n) == IF n < 0 THEN <<"-">> \o NatStr(-n) ELSE NatStr(n)

\* str(value)
StrOf(v) ==
    CASE v.type = "str" -> v.text
      [] v.type = "int" -> IntStr(v.value)
      [] v.type = "float" -> IntStr(v.value) \o <<".", "0">>
      [] v.type = "bool" -> IF v.value = 1 THEN <<"True">> ELSE <<"False">>
      [] v.type = "NoneType" -> <<"None">>
      [] OTHER -> v.text

\* sep.join(parts)
RECURSIVE Join(_, _)
Join(sep, parts) ==
    IF parts = <<>> THEN <<>>
    ELSE IF Len(parts) = 1 THEN parts[1]
    ELSE parts[1] \o sep \o Join(sep, Tail(parts))

\* json.dumps of a str: quoted, with ", \ and the newline escaped
JsonEscape(c) ==
    CASE c = "\"" -> <<"\\", "\"">>
      [] c = "\\" -> <<"\\", "\\">>
      [] c = "\n" -> <<"\\", "n">>
      [] OTHER -> <<c>>
RECURSIVE JsonEscaped(_)
JsonEscaped(text) ==
    IF text = <<>> THEN <<>> ELSE JsonEscape(text[1]) \o JsonEscaped(Tail(text))
JsonString(text) == <<"\"">> \o JsonEscaped(text) \o <<"\"">>

\* json.dumps of a scalar
JsonScalar(v) ==
    CASE v.type = "str" -> JsonString(v.text)
      [] v.type = "bool" -> IF v.value = 1 THEN <<"true">> ELSE <<"false">>
      [] v.type = "NoneType" -> <<"null">>
      [] OTHER -> StrOf(v)

\* json.dumps(value) of a dict of scalars: {"key": value, ...}
JsonDumps(v) ==
    <<"{">>
    \o Join(<<",", " ">>,
            [n \in 1..Len(v.keys) |->
                JsonString(v.keys[n]) \o <<":", " ">> \o JsonScalar(v.items[n])])
    \o <<"}">>

\* a fault: a list is stored as it is
FilterValueKeepsLists(v) ==
    IF v.type \in ScalarTypes \cup {"list"} THEN v
    ELSE IF v.type = "dict" THEN MStr(JsonDumps(v))
    ELSE MStr(StrOf(v))

\* the value _filter_complex_metadata stores for a value
FilterValue(v) ==
    IF v.type \in ScalarTypes THEN v
    ELSE IF v.type = "list"
    THEN MStr(Join(<<",", " ">>, [n \in 1..Len(v.items) |-> StrOf(v.items[n])]))
    ELSE IF v.type = "dict" THEN MStr(JsonDumps(v))
    ELSE MStr(StrOf(v))

\* _filter_complex_metadata(documents)
FilterComplexMetadata(documents) ==
    [k \in 1..Len(documents) |->
        [page_content |-> documents[k].page_content,
         metadata |-> [key \in DOMAIN documents[k].metadata |->
                          FilterValue(documents[k].metadata[key])]]]

\* metadata values of every kind the function tells apart
MetaValues ==
    { MStr(<<"a">>), MInt(12), MFloat(3), MBool(TRUE), MNone,
      MList(<<MStr(<<"a", "b">>), MInt(-7), MBool(FALSE)>>),
      MDict(<< <<"a">>, <<"b", "\"">> >>, <<MInt(1), MStr(<<"x", "\n">>)>>),
      MOther(<<"(1, 2)">>) }
ListValues == { MList(<<>>), MList(<<MStr(<<"a">>)>>) }

\* the metadata dicts given: no key, one key, two keys
MetaDicts ==
    {<<>>} \cup {[k |-> v] : v \in MetaValues}
           \cup {[k |-> v, tags |-> l] : v \in MetaValues, l \in ListValues}
GivenDocuments ==
    {[page_content |-> c, metadata |-> md] : c \in {<<"a">>, <<"b">>}, md \in MetaDicts}

\* a call of _filter_complex_metadata on documents of the caller's making
FilterDocuments(documents) ==
    /\ fpc = "idle"
    /\ fdocs' = documents
    /\ filtered_docs' = FilterComplexMetadata(documents)
    /\ fpc' = "done"

NextFilter ==
    \E n \in 0..MaxDocs : \E documents \in [1..n -> GivenDocuments] :
        FilterDocuments(documents)

\* the metadata dict split_documents_with_metadata builds, as Python values:
\* "keywords" is a key only if there are keywords
PythonMetadata(md) ==
    [key \in {"filename", "chunk_id", "total_chunks", "document_type", "chunk_size",
              "chunk_position", "contains_structure"}
             \cup (IF md.keywords = <<>> THEN {} ELSE {"keywords"}) |->
        CASE key = "filename" -> MStr(<<md.filename>>)
          [] key = "chunk_id" -> MInt(md.chunk_id)
          [] key = "total_chunks" -> MInt(md.total_chunks)
          [] key = "document_type" -> MStr(<<md.document_type>>)
          [] key = "chunk_size" -> MInt(md.chunk_size)
          [] key = "chunk_position" -> MStr(<<md.chunk_position>>)
          [] key = "contains_structure" -> MBool(md.contains_structure)
          [] key = "keywords" ->
                MList([n \in 1..Len(md.keywords) |-> MStr(md.keywords[n])])]

\* the Documents of split_documents_with_metadata, as Python values
PythonDocuments(documents) ==
    [k \in 1..Len(documents) |->
        [page_content |-> documents[k].page_content,
         metadata |-> PythonMetadata(documents[k].metadata)]]

\* a fault: an empty split is let through
EmptyResultIgnored(documents) == FALSE

\* if not documents: raise ValueError("Aucun document généré lors du découpage")
EmptyResultRaises(documents) == documents = <<>>

\* a fault: opening a collection makes it anew, empty
OpenedAnew(colls, name) == [colls EXCEPT ![name] = [exists |-> TRUE, entries |-> <<>>]]

\* the store after Chroma(client=client, collection_name=name, ...): the
\* collection is created if it is absent
Opened(colls, name) == [colls EXCEPT ![name].exists = TRUE]

\* what a call was given and what came of it; arg is the chunk_size, the k
\* or the collection name given
Call(o, outcome, error, count, text, cuts, overlap, arg) ==
    [op |-> o, outcome |-> outcome, error |-> error, count |-> count,
     text |-> text, cuts |-> cuts, overlap |-> overlap, arg |-> arg, info |-> NoInfo]

RECURSIVE SumOfSizes(_)
SumOfSizes(documents) ==
    IF documents = <<>> THEN 0
    ELSE Len(documents[1].page_content) + SumOfSizes(Tail(documents))

\* a fault: every chunk is counted as structured
DocInfoCountsAll(documents) ==
    [total_chunks |-> Len(documents),
     document_type |-> IF documents # <<>> THEN documents[1].metadata.document_type
                       ELSE "unknown",
     average_chunk_size |-> IF documents # <<>>
                            THEN <<SumOfSizes(documents), Len(documents)>> ELSE <<0, 1>>,
     keywords_extracted |-> \E n \in 1..Len(documents) : documents[n].metadata.keywords # <<>>,
     structure_preserved |-> Len(documents)]

\* doc_info; average_chunk_size as <<sum of the sizes, number of documents>>
DocInfo(documents) ==
    [total_chunks |-> Len(documents),
     document_type |-> IF documents # <<>> THEN documents[1].metadata.document_type
                       ELSE "unknown",
     average_chunk_size |-> IF documents # <<>>
                            THEN <<SumOfSizes(documents), Len(documents)>> ELSE <<0, 1>>,
     keywords_extracted |-> \E n \in 1..Len(documents) : documents[n].metadata.keywords # <<>>,
     structure_preserved |->
        Cardinality({n \in 1..Len(documents) : documents[n].metadata.contains_structure})]

\* initialize_vectorstore(collection_name): True and a bound store, or (any
\* exception being caught inside the measured function) False and no store
InitializeVectorstore(name, ok) ==
    /\ vectorstore' = IF ok THEN name ELSE "None"
    /\ collections' = IF ok THEN Opened(collections, name) ELSE collections
    /\ metrics_history' = AddMetrics(metrics_history, "initialize_vectorstore", TRUE, "")
    /\ last' = Call("initialize_vectorstore", "returned", "", IF ok THEN 1 ELSE 0,
                    <<>>, {}, 0, PyStr(name))
    /\ io' = {"open"}

\* a fault: a failed automatic open is passed over
OpenFailureIgnored(store) == FALSE

\* if not success or not self.vectorstore: raise ValueError(...)
OpenFailureRaises(store) == store = "None"

\* a fault: no except clause around delete_collection
DeleteErrorUncaught(error) == FALSE

\* except ValueError: the error of deleting a collection that does not exist
DeleteErrorCaught(error) == error = "ValueError"

\* reset_collection(collection_name); `fails` is the library call that raises:
\* "none", "client" (PersistentClient), "delete" (delete_collection, other
\* than the ValueError of an absent collection) or "create" (Chroma)
ResetCollection(name, fails) ==
    LET delete_error == IF fails = "delete" THEN "Exception"
                        ELSE IF ~collections[name].exists THEN "ValueError"
                        ELSE "none"
        error == IF fails = "client" THEN "client"
                 ELSE IF delete_error # "none" /\ ~DeleteErrorCaught(delete_error)
                 THEN delete_error
                 ELSE IF fails = "create" THEN "create"
                 ELSE "none"
    IN
    /\ metrics_history' = metrics_history
    /\ collections' =
          IF error \in {"client", "Exception", "ValueError"} THEN collections
          ELSE [collections EXCEPT ![name] =
                    [exists |-> error = "none", entries |-> <<>>]]
    /\ vectorstore' = IF error = "none" THEN name ELSE vectorstore
    /\ last' = IF error = "none"
               THEN Call("reset_collection", "returned", "", 0, <<>>, {}, 0, PyStr(name))
               ELSE Call("reset_collection", "raised", error, 0, <<>>, {}, 0, PyStr(name))
    /\ io' = IF error = "client" THEN {"open"}
             ELSE IF error \in {"Exception", "ValueError"} THEN {"open", "delete"}
             ELSE {"open", "delete", "create"}

\* the texts given to the store: empty, blank, punctuation only, one word,
\* and two sentences
StoreTexts == {<<>>, <<" ">>, <<".">>, <<"a", "a", "a">>, <<"A", ".", "a">>}
\* chunk sizes at and beside the limits, and values that are not an int:
\* 1000.0, and True (an int, of value 1)
StoreChunkSizes ==
    {PyInt(MinChunkSize - 1), PyInt(MinChunkSize), PyInt(MaxChunkSize),
     PyInt(MaxChunkSize + 1), PyValue("float", 1000), PyValue("bool", 1)}
StoreCuts == {{}, {1}, {2}}

\* self.text_splitter.split_documents_with_metadata(text, filename, ...) for
\* the texts and the cuts given to the store, computed once
SplitOfStoreTexts ==
    [text \in StoreTexts |-> [cuts \in StoreCuts |->
        DocumentsWithMetadata(SmartSplit(SplitText(PreprocessText(text), cuts, 0)),
                              "doc.txt", DetectDocumentType(text))]]

\* add_documents_enhanced(text, filename, chunk_size, chunk_overlap); cuts and
\* overlap are split_text's choice, init_ok and add_ok whether the library
\* opens the store and adds the documents without raising
AddDocumentsEnhanced(text, chunk_size, cuts, overlap, init_ok, add_ok) ==
    LET check == ValidateChunkSize(chunk_size)
        opens == vectorstore = "None"
        store == IF opens THEN (IF init_ok THEN DefaultCollection ELSE "None")
                 ELSE vectorstore
        colls == IF opens /\ init_ok THEN Opened(collections, DefaultCollection)
                 ELSE collections
        hist == IF opens
                THEN AddMetrics(metrics_history, "initialize_vectorstore", TRUE, "")
                ELSE metrics_history
        documents == SplitOfStoreTexts[text][cuts]
        filtered == FilterComplexMetadata(PythonDocuments(documents))
        Raised(error) == Call("add_documents_enhanced", "raised", error, 0,
                              text, cuts, overlap, chunk_size)
        opening == IF opens THEN {"open"} ELSE {}
    IN
    /\ IF ~check.valid THEN
          \* raise ValueError(f"Chunk size invalide: {chunk_error}")
          /\ last' = Raised(check.error)
          /\ io' = {}
          /\ UNCHANGED <<vectorstore, collections, metrics_history>>
       ELSE IF OpenFailureRaises(store) THEN
          /\ last' = Raised("Échec d'initialisation du VectorStore")
          /\ io' = opening
          /\ vectorstore' = store
          /\ collections' = colls
          /\ metrics_history' = AddMetrics(hist, "add_documents", FALSE, last'.error)
       ELSE IF EmptyResultRaises(documents) THEN
          /\ last' = Raised("Aucun document généré lors du découpage")
          /\ io' = opening \cup {"split"}
          /\ vectorstore' = store
          /\ collections' = colls
          /\ metrics_history' = AddMetrics(hist, "add_documents", FALSE, last'.error)
       ELSE IF ~add_ok \/ store = "None" \/ ~colls[store].exists THEN
          \* self.vectorstore.add_documents raises: nothing is added
          /\ last' = Raised("storage")
          /\ io' = opening \cup {"split", "embed"}
          /\ vectorstore' = store
          /\ collections' = colls
          /\ metrics_history' = AddMetrics(hist, "add_documents", FALSE, last'.error)
       ELSE
          /\ last' = [Call("add_documents_enhanced", "returned", "", Len(documents),
                           text, cuts, overlap, chunk_size)
                          EXCEPT !.info = DocInfo(documents)]
          /\ io' = opening \cup {"split", "embed", "write"}
          /\ vectorstore' = store
          /\ collections' = [colls EXCEPT ![store].entries = @ \o filtered]
          /\ metrics_history' = AddMetrics(hist, "add_documents", TRUE, "")

\* re.search(pattern, question, re.IGNORECASE) for a pattern of literal
\* characters
SearchIgnoreCase(pattern, question) ==
    \E p \in 1..(Len(question) - Len(pattern) + 1) :
        \A q \in 1..Len(pattern) : Lower(question[p + q - 1]) = Lower(pattern[q])

\* suspicious_patterns: <script, javascript:, eval\(, exec\(
SuspiciousPatterns ==
    { <<"<", "s", "c", "r", "i", "p", "t">>,
      <<"j", "a", "v", "a", "s", "c", "r", "i", "p", "t", ":">>,
      <<"e", "v", "a", "l", "(">>,
      <<"e", "x", "e", "c", "(">> }
MinQuestionLen == 3
MaxQuestionLen == 1000

\* InputValidator.validate_question, for a str
ValidateQuestion(question) ==
    IF question = <<>> \/ Strip(question) = <<>>
    THEN [valid |-> FALSE, error |-> "Question vide"]
    ELSE IF Len(Strip(question)) < MinQuestionLen
    THEN [valid |-> FALSE, error |-> "Question trop courte (minimum 3 caractères)"]
    ELSE IF Len(Strip(question)) > MaxQuestionLen
    THEN [valid |-> FALSE, error |-> "Question trop longue (maximum 1000 caractères)"]
    ELSE IF \E pattern \in SuspiciousPatterns : SearchIgnoreCase(pattern, Strip(question))
    THEN [valid |-> FALSE, error |-> "Question contient des éléments suspects"]
    ELSE [valid |-> TRUE, error |-> ""]

\* a fault: a failed lookup is let out of _search
LookupFailureRaises(documents_found) == FALSE

\* try: similarity_search(...) except Exception: return []
LookupFailureCaught(documents_found) == TRUE

\* search_with_metadata(query, k); init_ok and lookup_ok are whether the
\* library opens the store and answers the lookup without raising
SearchWithMetadata(query, k, init_ok, lookup_ok) ==
    LET check == ValidateQuestion(query)
        opens == vectorstore = "None"
        store == IF opens THEN (IF init_ok THEN DefaultCollection ELSE "None")
                 ELSE vectorstore
        colls == IF opens /\ init_ok THEN Opened(collections, DefaultCollection)
                 ELSE collections
        hist == IF opens
                THEN AddMetrics(metrics_history, "initialize_vectorstore", TRUE, "")
                ELSE metrics_history
        opening == IF opens THEN {"open"} ELSE {}
        found == IF store # "None" /\ lookup_ok /\ colls[store].exists
                 THEN Min(IF k.value > 0 THEN k.value ELSE 0, Len(colls[store].entries))
                 ELSE 0
        Returned(count) == Call("search_with_metadata", "returned", "", count,
                                query, {}, 0, k)
        Raised(error) == Call("search_with_metadata", "raised", error, 0, query, {}, 0, k)
    IN
    /\ IF ~check.valid THEN
          \* raise ValueError(f"Requête invalide: {query_error}")
          /\ last' = Raised(check.error)
          /\ io' = {}
          /\ UNCHANGED <<vectorstore, collections, metrics_history>>
       ELSE IF store = "None" THEN
          \* the open failed: return []
          /\ last' = Returned(0)
          /\ io' = opening
          /\ vectorstore' = store
          /\ collections' = colls
          /\ metrics_history' = AddMetrics(hist, "search_documents", TRUE, "")
       ELSE IF ~(lookup_ok /\ colls[store].exists) THEN
          /\ vectorstore' = store
          /\ collections' = colls
          /\ io' = opening \cup {"embed", "lookup", "lookup raised"}
          /\ IF LookupFailureCaught(found)
             THEN /\ last' = Returned(0)
                  /\ metrics_history' = AddMetrics(hist, "search_documents", TRUE, "")
             ELSE /\ last' = Raised("lookup")
                  /\ metrics_history' = AddMetrics(hist, "search_documents", FALSE, "lookup")
       ELSE
          \* one enriched result per document found
          /\ last' = Returned(found)
          /\ io' = opening \cup {"embed", "lookup"}
          /\ vectorstore' = store
          /\ collections' = colls
          /\ metrics_history' = AddMetrics(hist, "search_documents", TRUE, "")

\* get_retriever(k); nothing is looked up until the retriever is used
GetRetriever(k, init_ok) ==
    LET opens == vectorstore = "None"
        store == IF opens THEN (IF init_ok THEN DefaultCollection ELSE "None")
                 ELSE vectorstore
    IN
    /\ vectorstore' = store
    /\ collections' = IF opens /\ init_ok THEN Opened(collections, DefaultCollection)
                      ELSE collections
    /\ metrics_history' =
          IF opens THEN AddMetrics(metrics_history, "initialize_vectorstore", TRUE, "")
          ELSE metrics_history
    /\ io' = IF opens THEN {"open"} ELSE {}
    /\ last' = IF OpenFailureRaises(store)
               THEN Call("get_retriever", "raised",
                         "Impossible d'initialiser le VectorStore pour le retriever",
                         0, <<>>, {}, 0, k)
               ELSE Call("get_retriever", "returned", "", 0, <<>>, {}, 0, k)

\* the k given: at and beside the limits of [1, 20], and 3.0
StoreKs == {PyInt(0), PyInt(1), PyInt(20), PyInt(21), PyValue("float", 3)}
\* the queries given: blank, too short, valid, suspicious
StoreQueries == { <<" ">>, <<"a", "b">>, <<"a", "b", "c">>,
                  <<"E", "v", "a", "l", "(", "a">> }

\* one more call of the manager, of at most MaxOps
NextStore ==
    /\ nops < MaxOps
    /\ nops' = nops + 1
    /\ \/ \E name \in CollectionNames, ok \in BOOLEAN : InitializeVectorstore(name, ok)
       \/ \E name \in CollectionNames, fails \in {"none", "client", "delete", "create"} :
             ResetCollection(name, fails)
       \/ \E text \in StoreTexts, chunk_size \in StoreChunkSizes, cuts \in StoreCuts,
             init_ok \in BOOLEAN, add_ok \in BOOLEAN :
             AddDocumentsEnhanced(text, chunk_size, cuts, 0, init_ok, add_ok)
       \/ \E query \in StoreQueries, k \in StoreKs, init_ok \in BOOLEAN,
             lookup_ok \in BOOLEAN :
             SearchWithMetadata(query, k, init_ok, lookup_ok)
       \/ \E k \in StoreKs, init_ok \in BOOLEAN : GetRetriever(k, init_ok)

(***************************************************************************)
(* PerformanceMonitor, used by several threads.  A thread is in one call   *)
(* at a time; `with self._lock` is an acquire, the body, a release.        *)
(***************************************************************************)
MonitorOperations == {"f", "g"}

\* a fault: the lock is taken whoever holds it
LockAlwaysFree(holder) == TRUE

\* threading.Lock.acquire returns only when the lock is free
LockFree(holder) == holder = 0

\* a fault: the exception is swallowed by the wrapper
Swallows(success) == FALSE

\* except Exception as e: ...; raise
Reraises(success) == ~success

\* summary of get_metrics_summary: the counts and the recent errors
RecentErrors(filtered_metrics) ==
    SelectSeq(LastEntries(filtered_metrics, 5), LAMBDA e : ~e.success)
SuccessCount(filtered_metrics) ==
    Cardinality({n \in 1..Len(filtered_metrics) : filtered_metrics[n].success})
SummaryOf(filtered_metrics) ==
    IF filtered_metrics = <<>>
    THEN [kind |-> "summary", value |-> "Aucune métrique disponible", summary |-> <<>>]
    ELSE [kind |-> "summary", value |-> "",
          summary |-> <<Len(filtered_metrics), SuccessCount(filtered_metrics),
                        RecentErrors(filtered_metrics)>>]

\* a thread calls a function wrapped by measure_performance(operation), which
\* will return or raise; clear_metrics; or get_metrics_summary(operation)
Invoke(t, kind, operation, raises) ==
    /\ tpc[t] = "idle"
    /\ ncalls < MaxCalls
    /\ ncalls' = ncalls + 1
    /\ tcall' = [tcall EXCEPT ![t] = [kind |-> kind, operation |-> operation,
                                      raises |-> raises]]
    /\ tpc' = [tpc EXCEPT ![t] = IF kind = "measured" THEN "func" ELSE "acquire"]
    /\ tappends' = [tappends EXCEPT ![t] = 0]
    /\ tout' = [tout EXCEPT ![t] = NoOutcome]
    /\ UNCHANGED <<mcap, mhistory, lock, clock, recorded, tmetrics, tsnap>>

\* try: result = func(...) except Exception as e: ... finally: metrics = ...
RunFunc(t) ==
    /\ tpc[t] = "func"
    /\ tmetrics' = [tmetrics EXCEPT ![t] =
          [timestamp |-> clock + 1, operation |-> tcall[t].operation,
           success |-> ~tcall[t].raises,
           error_message |-> IF tcall[t].raises THEN "boom" ELSE "None"]]
    /\ clock' = clock + 1
    /\ tpc' = [tpc EXCEPT ![t] = "acquire"]
    /\ UNCHANGED <<mcap, mhistory, lock, ncalls, recorded, tcall, tappends, tsnap, tout>>

\* with self._lock:
Acquire(t) ==
    /\ tpc[t] = "acquire"
    /\ LockFree(lock)
    /\ lock' = t
    /\ tpc' = [tpc EXCEPT ![t] = "locked"]
    /\ UNCHANGED <<mcap, mhistory, clock, ncalls, recorded, tcall, tmetrics, tappends,
                   tsnap, tout>>

\* self.metrics_history.append(metrics)
AppendMetrics(t) ==
    /\ tpc[t] = "locked" /\ tcall[t].kind = "measured"
    /\ mhistory' = Append(mhistory, tmetrics[t])
    /\ recorded' = Append(recorded, tmetrics[t])
    /\ tappends' = [tappends EXCEPT ![t] = @ + 1]
    /\ tpc' = [tpc EXCEPT ![t] = "trim"]
    /\ UNCHANGED <<mcap, lock, clock, ncalls, tcall, tmetrics, tsnap, tout>>

\* if len(self.metrics_history) > self.max_history: keep the last max_history
TrimHistory(t) ==
    /\ tpc[t] = "trim"
    /\ mhistory' = Trimmed(mhistory, mcap)
    /\ tpc' = [tpc EXCEPT ![t] = "release"]
    /\ UNCHANGED <<mcap, lock, clock, ncalls, recorded, tcall, tmetrics, tappends,
                   tsnap, tout>>

\* self.metrics_history.clear()
ClearMetrics(t) ==
    /\ tpc[t] = "locked" /\ tcall[t].kind = "clear"
    /\ mhistory' = <<>>
    /\ recorded' = <<>>
    /\ tpc' = [tpc EXCEPT ![t] = "release"]
    /\ UNCHANGED <<mcap, lock, clock, ncalls, tcall, tmetrics, tappends, tsnap, tout>>

\* filtered_metrics = self.metrics_history.copy()
CopyHistory(t) ==
    /\ tpc[t] = "locked" /\ tcall[t].kind = "summary"
    /\ tsnap' = [tsnap EXCEPT ![t] = mhistory]
    /\ tpc' = [tpc EXCEPT ![t] = "release"]
    /\ UNCHANGED <<mcap, mhistory, lock, clock, ncalls, recorded, tcall, tmetrics,
                   tappends, tout>>

\* the end of the with block
Release(t) ==
    /\ tpc[t] = "release"
    /\ lock' = IF lock = t THEN 0 ELSE lock
    /\ tpc' = [tpc EXCEPT ![t] = "exit"]
    /\ UNCHANGED <<mcap, mhistory, clock, ncalls, recorded, tcall, tmetrics, tappends,
                   tsnap, tout>>

\* the call ends: the wrapper returns result or lets the exception go on,
\* clear_metrics returns, get_metrics_summary filters its copy and returns
\* the summary
Exit(t) ==
    /\ tpc[t] = "exit"
    /\ tout' = [tout EXCEPT ![t] =
          IF tcall[t].kind = "measured"
          THEN IF Reraises(tmetrics[t].success)
               THEN [kind |-> "raised", value |-> "boom", summary |-> <<>>]
               ELSE [kind |-> "returned",
                     value |-> IF tcall[t].raises THEN "None" ELSE "result",
                     summary |-> <<>>]
          ELSE IF tcall[t].kind = "clear"
          THEN [kind |-> "returned", value |-> "None", summary |-> <<>>]
          ELSE SummaryOf(IF tcall[t].operation = "" THEN tsnap[t]
                         ELSE SelectSeq(tsnap[t],
                                        LAMBDA e : e.operation = tcall[t].operation))]
    /\ tpc' = [tpc EXCEPT ![t] = "idle"]
    /\ UNCHANGED <<mcap, mhistory, lock, clock, ncalls, recorded, tcall, tmetrics,
                   tappends, tsnap>>

NextMonitor ==
    \E t \in Threads :
        \/ \E operation \in MonitorOperations, raises \in BOOLEAN :
              Invoke(t, "measured", operation, raises)
        \/ Invoke(t, "clear", "", FALSE)
        \/ \E operation \in {"", "f"} : Invoke(t, "summary", operation, FALSE)
        \/ RunFunc(t)
        \/ Acquire(t)
        \/ AppendMetrics(t)
        \/ TrimHistory(t)
        \/ ClearMetrics(t)
        \/ CopyHistory(t)
        \/ Release(t)
        \/ Exit(t)

\* PerformanceMonitor(max_history=cap), for a small cap
InitSmallCap ==
    /\ InitEmbed /\ hashFn = [t \in Texts |-> 7]
    /\ InitSplit /\ InitStore /\ InitFilter /\ InitLate
    /\ \E cap \in 0..MaxCap : InitMonitor(cap)

\* a monitor of any small cap, used by the threads
SpecMonitor ==
    InitSmallCap
    /\ [][NextMonitor /\ UNCHANGED <<embedVars, splitVars, storeVars, filterVars, lateVars>>]_vars

\* the manager alone (the store is given no embedding to read in this model:
\* one hash function stands for all)
SpecStore ==
    /\ Init /\ hashFn = [t \in Texts |-> 7]
    /\ [][NextStore /\ UNCHANGED <<embedVars, splitVars, filterVars, monVars, lateVars>>]_vars

\* _filter_complex_metadata called on its own, once, or by the manager's
\* add_documents_enhanced
SpecFilter ==
    /\ Init /\ hashFn = [t \in Texts |-> 7]
    /\ [][ \/ nops = 0 /\ NextFilter /\ UNCHANGED <<embedVars, splitVars, storeVars, monVars, lateVars>>
           \/ fpc = "idle" /\ NextStore /\ UNCHANGED <<embedVars, splitVars, filterVars, monVars, lateVars>>
         ]_vars

(***************************************************************************)
(* Properties of the embedding service                                     *)
(***************************************************************************)
\* the trace is that of a _call_api that has returned
CallOver == trace # <<>> /\ (pc # "call" \/ attempt = 0)

\* the batch that call was given
LastBatch ==
    IF op = "embed_documents" THEN Slice(texts, i - batch_size, i) ELSE texts

\* that call returned the fallback's vectors for its batch
FellBack ==
    /\ CallOver
    /\ api_fallback
    /\ api_value = GenerateFakeEmbeddings(LastBatch)

All503 == \A k \in 1..Len(trace) : trace[k].sent = "response" /\ trace[k].status = 503

\* answered by a status that is neither 200 nor 503
OtherStatus(e) == e.sent = "response" /\ e.status \notin {200, 503}

\* C1: one _call_api issues at most 3 requests; a 503 on the k-th attempt is
\* followed by a sleep of 2^(k-1) seconds (1, 2, 4); after a 503 on the third
\* attempt the call returns the fallback vectors.
Thm_C1 ==
    /\ Len(trace) <= 3
    /\ \A k \in 1..Len(trace) :
          /\ trace[k].attempt = k - 1
          /\ (trace[k].sent = "response" /\ trace[k].status = 503)
                => trace[k].sleep = <<1, 2, 4>>[k]
    /\ (Len(trace) = 3 /\ trace[3].sent = "response" /\ trace[3].status = 503)
          => FellBack /\ ~raised

Wit_C1 == Len(trace) = 3 /\ All503 /\ FellBack

\* C2 as stated: an attempt that meets a status other than 200 and 503, or an
\* exception of the request, is the last request of its call, which returns
\* the fallback vectors and raises nothing.
Claim_C2 ==
    \A k \in 1..Len(trace) :
        (OtherStatus(trace[k]) \/ trace[k].sent = "exception")
            => k = Len(trace) /\ FellBack /\ ~raised

\* C2 amended: a status other than 200 and 503 ends the call at once with the
\* fallback vectors; an exception of the request on attempt 1 or 2 is followed
\* by a sleep of 1 s and another request, and on attempt 3 by the fallback
\* vectors; nothing is raised.
Thm_C2 ==
    /\ ~raised
    /\ \A k \in 1..Len(trace) :
          /\ OtherStatus(trace[k]) => k = Len(trace) /\ FellBack
          /\ trace[k].sent = "exception" =>
                IF k < 3
                THEN /\ trace[k].sleep = 1
                     /\ k < Len(trace) \/ (pc = "call" /\ attempt = k)
                ELSE k = Len(trace) /\ FellBack

Wit_C2 ==
    /\ Len(trace) = 3
    /\ trace[1].sent = "exception"
    /\ trace[2].sent = "exception"
    /\ OtherStatus(trace[3])
    /\ FellBack

\* the requests the running call may still issue: those left to the current
\* _call_api, and max_retries for each batch after it
BatchesAfter ==
    IF op = "embed_documents"
    THEN Cardinality({k \in 1..Len(texts) : i + k * batch_size < Len(texts)})
    ELSE 0
Budget == (max_retries - attempt) + max_retries * BatchesAfter

\* C3: whatever the remote answers (a request is always answered: it carries a
\* timeout), an embed call that has started returns, and no exception leaves
\* it: each request either ends the call without raising or leaves it with
\* strictly fewer requests to issue.
Thm_C3 ==
    /\ [](pc = "call" => Budget >= 1)
    /\ [][ pc = "call" =>
              /\ ~raised'
              /\ \/ pc' = "done"
                 \/ pc' = "call" /\ Budget' >= 1 /\ Budget' < Budget ]_vars

\* a call that met a malformed 200 body, an exception and a 503 has returned
Wit_C3 ==
    /\ pc = "done"
    /\ ~raised
    /\ Len(trace) = 3
    /\ trace[1].sent = "response" /\ trace[1].status = 200
    /\ trace[2].sent = "exception"
    /\ trace[3].status = 503

\* C4 as stated: every vector an embed call returns has 384 components.
Claim_C4 ==
    pc = "done" =>
        IF op = "embed_query" THEN Len(result) = 384
        ELSE \A k \in 1..Len(result) : Len(result[k]) = 384

\* C5 as stated: embed_documents returns one vector per text, the k-th being
\* the embedding (remote or fallback) of the k-th text.
Claim_C5 ==
    (pc = "done" /\ op = "embed_documents") =>
        /\ Len(result) = Len(texts)
        /\ \A k \in 1..Len(result) :
              \/ result[k] = RemoteVec(texts[k])
              \/ result[k] = GenerateFakeEmbeddings(<<texts[k]>>)[1]

\* C6: on one instance the fallback vector of a text is always the same,
\* whatever the call, the calls before it and the texts sharing its batch;
\* so embed_query returns for a text the fallback vector it got before.
Thm_C6 ==
    /\ \A t \in Texts : \A k \in 1..Len(fakeLog[t]) : fakeLog[t][k] = fakeLog[t][1]
    /\ (pc = "done" /\ op = "embed_query" /\ api_fallback)
          => result = fakeLog[texts[1]][1]

\* embed_query fell back for a text whose fallback vector was generated before
Wit_C6 ==
    /\ pc = "done"
    /\ op = "embed_query"
    /\ api_fallback
    /\ Len(fakeLog[texts[1]]) >= 2

\* C7 as stated: after three 503, embed_documents on two distinct texts
\* returns two fallback vectors of 384 components that differ.
Claim_C7 ==
    (pc = "done" /\ op = "embed_documents" /\ Len(texts) = 2 /\ texts[1] # texts[2]
        /\ Len(trace) = 3 /\ All503)
    => /\ Len(result) = 2
       /\ Len(result[1]) = 384 /\ Len(result[2]) = 384
       /\ result[1] # result[2]

(***************************************************************************)
(* Properties of the splitter                                              *)
(***************************************************************************)
\* the chunks of split_text that survive cleaning and the removal of blanks
Survivors == {k \in 1..Len(sraw) : Strip(CleanChunk(sraw[k])) # <<>>}

\* C8: for a chunk_size in [100, 4000] and a non-empty text, the n documents
\* carry chunk_id 0, 1, ..., n-1 in list order and total_chunks = n, n being
\* the number of chunks that survived cleaning and empty-chunk removal.
Thm_C8 ==
    (spc = "done" /\ stext # <<>> /\ ssize \in 100..4000) =>
        /\ Len(sdocs) = Cardinality(Survivors)
        /\ \A k \in 1..Len(sdocs) :
              /\ sdocs[k].metadata.chunk_id = k - 1
              /\ sdocs[k].metadata.total_chunks = Len(sdocs)
              /\ Strip(sdocs[k].page_content) # <<>>

\* three chunks were cut, one of which did not survive
Wit_C8 ==
    /\ spc = "done"
    /\ ssize \in 100..4000
    /\ Len(sraw) = 3
    /\ Len(sdocs) = 2
    /\ sdocs[2].metadata.chunk_id = 1

\* C9 as stated: chunk_position is start iff chunk_id = 0, end iff
\* chunk_id = total_chunks - 1, and middle otherwise, for every total_chunks >= 1.
Claim_C9 ==
    spc = "done" =>
        \A k \in 1..Len(sdocs) :
            LET md == sdocs[k].metadata
            IN  /\ md.chunk_position = "start" <=> md.chunk_id = 0
                /\ md.chunk_position = "end" <=> md.chunk_id = md.total_chunks - 1
                /\ md.chunk_position = "middle"
                      <=> (md.chunk_id # 0 /\ md.chunk_id # md.total_chunks - 1)

\* C9 amended: chunk_position is start iff chunk_id = 0, end iff chunk_id =
\* total_chunks - 1 and chunk_id > 0, and middle otherwise; the only chunk of
\* a call that yields one chunk is start.
Thm_C9 ==
    spc = "done" =>
        \A k \in 1..Len(sdocs) :
            LET md == sdocs[k].metadata
            IN  /\ md.chunk_position = "start" <=> md.chunk_id = 0
                /\ md.chunk_position = "end"
                      <=> (md.chunk_id = md.total_chunks - 1 /\ md.chunk_id > 0)
                /\ md.chunk_position = "middle"
                      <=> (md.chunk_id # 0 /\ md.chunk_id # md.total_chunks - 1)

\* a call that yielded a single chunk
Wit_C9 ==
    /\ spc = "done"
    /\ Len(sdocs) = 1
    /\ sdocs[1].metadata.chunk_id = sdocs[1].metadata.total_chunks - 1
    /\ sdocs[1].metadata.chunk_position = "start"

(***************************************************************************)
(* Properties of the store manager                                         *)
(***************************************************************************)
\* the call was add_documents_enhanced on a text whose split yields no chunk
AddOfNothing(call) ==
    /\ call.op = "add_documents_enhanced"
    /\ SmartSplit(SplitText(PreprocessText(call.text), call.cuts, call.overlap)) = <<>>

\* C10: when the split of the given text yields no non-empty chunk,
\* add_documents_enhanced raises instead of returning a count and the entries
\* of every collection are after the call what they were before it.
Thm_C10 ==
    [][ (nops' = nops + 1 /\ AddOfNothing(last')) =>
            /\ last'.outcome = "raised"
            /\ \A name \in CollectionNames :
                  collections'[name].entries = collections[name].entries ]_vars

\* the empty split was reached (the store open, the chunk size valid) on a
\* collection that holds entries
Wit_C10 ==
    /\ AddOfNothing(last)
    /\ last.outcome = "raised"
    /\ last.error = "Aucun document généré lors du découpage"
    /\ vectorstore # "None"
    /\ Len(collections[vectorstore].entries) > 0

\* the last call was add_documents_enhanced with a chunk_size that is not an
\* integer or lies outside [100, 4000]
BadChunkSize(call) ==
    /\ call.op = "add_documents_enhanced"
    /\ \/ call.arg.type # "int"
       \/ call.arg.value < 100
       \/ call.arg.value > 4000

\* C11: add_documents_enhanced with a chunk_size that is not an integer or is
\* outside [100, 4000] raises an error carrying the validator's reason, and
\* does so before any I/O: no open, split, embedding request or write, the
\* handle, the collections and the monitor's history as they were.
Thm_C11 ==
    [][ (nops' = nops + 1 /\ BadChunkSize(last')) =>
            /\ last'.outcome = "raised"
            /\ last'.error \in {"La taille des chunks doit être un nombre entier",
                                "Taille des chunks trop petite (minimum 100)",
                                "Taille des chunks trop grande (maximum 4000)"}
            /\ io' = {}
            /\ vectorstore' = vectorstore
            /\ collections' = collections
            /\ metrics_history' = metrics_history ]_vars

\* a chunk_size that is not an integer was refused while the store was open
\* and held entries
Wit_C11 ==
    /\ BadChunkSize(last)
    /\ last.arg.type = "float"
    /\ last.outcome = "raised"
    /\ io = {}
    /\ vectorstore # "None"
    /\ Len(collections[vectorstore].entries) > 0

\* the last call was search_with_metadata with a k that is not an integer or
\* lies outside [1, 20]
BadK(call) ==
    /\ call.op = "search_with_metadata"
    /\ \/ call.arg.type # "int"
       \/ call.arg.value < 1
       \/ call.arg.value > 20

\* C12: search_with_metadata with a k that is not an integer or is outside
\* [1, 20] raises a validation error before any I/O: no open, no embedding
\* request and no similarity lookup is made.
Claim_C12 ==
    [][ (nops' = nops + 1 /\ BadK(last')) =>
            /\ last'.outcome = "raised"
            /\ io' = {} ]_vars

\* the last call was search_with_metadata with a query that passes
\* validate_question
ValidSearch(call) ==
    /\ call.op = "search_with_metadata"
    /\ ValidateQuestion(call.text).valid

\* C13: search_with_metadata with a query that passes validation never raises;
\* called on an unopened store it attempts the open first; when that open
\* fails, when the similarity lookup raises or when the collection is empty,
\* it returns the empty list.
Thm_C13 ==
    [][ (nops' = nops + 1 /\ ValidSearch(last')) =>
            /\ last'.outcome = "returned"
            /\ vectorstore = "None" => "open" \in io'
            /\ vectorstore' = "None" => (last'.count = 0 /\ "lookup" \notin io')
            /\ "lookup raised" \in io' => last'.count = 0
            /\ (vectorstore' # "None" /\ collections'[vectorstore'].entries = <<>>)
                  => last'.count = 0 ]_vars

\* a lookup raised on an open collection that holds entries, and the search
\* returned the empty list
Wit_C13 ==
    /\ ValidSearch(last)
    /\ last.outcome = "returned"
    /\ last.count = 0
    /\ "lookup raised" \in io
    /\ vectorstore # "None"
    /\ Len(collections[vectorstore].entries) > 0

\* the step is a reset_collection call on the collection `name`
ResetStep(name) ==
    /\ nops' = nops + 1
    /\ last'.op = "reset_collection"
    /\ last'.arg = PyStr(name)

\* C14: reset_collection(name) raises only when a library call fails, never
\* because the collection is absent or empty; whenever it returns, the
\* collection exists with no entry and the manager is bound to it; a reset
\* that follows a reset of the same collection changes nothing.
Thm_C14 ==
    [][ \A name \in CollectionNames : ResetStep(name) =>
            /\ last'.outcome = "raised" => last'.error \in {"client", "Exception", "create"}
            /\ last'.outcome = "returned" =>
                  /\ collections'[name] = [exists |-> TRUE, entries |-> <<>>]
                  /\ vectorstore' = name
                  /\ \A other \in CollectionNames \ {name} :
                        collections'[other] = collections[other]
            /\ (last'.outcome = "returned" /\ last = last') =>
                  /\ vectorstore' = vectorstore
                  /\ collections' = collections
                  /\ metrics_history' = metrics_history ]_vars

\* a reset returned after a successful add, and no collection holds an entry
\* any more
Wit_C14 ==
    /\ last.op = "reset_collection"
    /\ last.outcome = "returned"
    /\ \E n \in 1..Len(metrics_history) :
          metrics_history[n].operation = "add_documents" /\ metrics_history[n].success
    /\ \A name \in CollectionNames : collections[name].entries = <<>>
    /\ vectorstore = last.arg.text

\* the step is a call that needs the store (add_documents_enhanced with a
\* valid chunk size, search_with_metadata with a valid query, get_retriever)
NeedsStore(call) ==
    \/ call.op = "add_documents_enhanced" /\ ValidateChunkSize(call.arg).valid
    \/ call.op = "search_with_metadata" /\ ValidateQuestion(call.text).valid
    \/ call.op = "get_retriever"

\* C15: when the store is unopened and the automatic open fails,
\* add_documents_enhanced and get_retriever raise, no collection gains or
\* loses an entry and the store stays unopened; and every call that needs the
\* store attempts the open whenever the store is unopened.
Thm_C15 ==
    [][ (nops' = nops + 1 /\ vectorstore = "None" /\ NeedsStore(last')) =>
            /\ "open" \in io'
            /\ (vectorstore' = "None"
                  /\ last'.op \in {"add_documents_enhanced", "get_retriever"}) =>
                  /\ last'.outcome = "raised"
                  /\ last'.error \in
                        {"Échec d'initialisation du VectorStore",
                         "Impossible d'initialiser le VectorStore pour le retriever"}
                  /\ \A name \in CollectionNames :
                        collections'[name].entries = collections[name].entries ]_vars

\* get_retriever raised on a failed open after an earlier call had already
\* failed to open the store
Wit_C15 ==
    /\ last.op = "get_retriever"
    /\ last.outcome = "raised"
    /\ io = {"open"}
    /\ vectorstore = "None"
    /\ Len(metrics_history) >= 3
    /\ metrics_history[2].operation = "add_documents"
    /\ metrics_history[2].error_message = "Échec d'initialisation du VectorStore"

(***************************************************************************)
(* Properties of _filter_complex_metadata                                  *)
(***************************************************************************)
\* every metadata value of every entry of every collection is a scalar
StoredScalars ==
    \A name \in CollectionNames : \A n \in 1..Len(collections[name].entries) :
        \A key \in DOMAIN collections[name].entries[n].metadata :
            collections[name].entries[n].metadata[key].type \in ScalarTypes

\* C16: _filter_complex_metadata returns as many documents as it was given, in
\* the same order, each with its content and its metadata keys, every value a
\* str, int, float, bool or None: a scalar as it was, a list as its elements'
\* str() joined by ", ", a dict as its JSON text; and what
\* add_documents_enhanced has written holds scalar values only.
Thm_C16 ==
    /\ fpc = "done" =>
          /\ Len(filtered_docs) = Len(fdocs)
          /\ \A n \in 1..Len(fdocs) :
                /\ filtered_docs[n].page_content = fdocs[n].page_content
                /\ DOMAIN filtered_docs[n].metadata = DOMAIN fdocs[n].metadata
                /\ \A key \in DOMAIN fdocs[n].metadata :
                      LET v == fdocs[n].metadata[key]
                          w == filtered_docs[n].metadata[key]
                      IN  /\ w.type \in ScalarTypes
                          /\ v.type \in ScalarTypes => w = v
                          /\ v.type = "list" =>
                                /\ w.type = "str"
                                /\ w.text = Join(<<",", " ">>,
                                               [m \in 1..Len(v.items) |-> StrOf(v.items[m])])
                          /\ v.type = "dict" =>
                                /\ w.type = "str"
                                /\ w.text = JsonDumps(v)
    /\ StoredScalars

\* two documents were filtered, the first with the list ["ab", -7, False],
\* stored as the text "ab, -7, False", the second with a dict, stored as
\* {"a": 1, "b\"": "x\n"}
Wit_C16 ==
    /\ fpc = "done"
    /\ Len(fdocs) = 2
    /\ fdocs[1].page_content = <<"a">> /\ fdocs[2].page_content = <<"b">>
    /\ "k" \in DOMAIN fdocs[1].metadata /\ "k" \in DOMAIN fdocs[2].metadata
    /\ fdocs[1].metadata["k"].type = "list"
    /\ fdocs[2].metadata["k"].type = "dict"
    /\ filtered_docs[1].metadata["k"].text
          = <<"a", "b", ",", " ", "-", "7", ",", " ", "False">>
    /\ filtered_docs[2].metadata["k"].text
          = <<"{", "\"", "a", "\"", ":", " ", "1", ",", " ",
              "\"", "b", "\\", "\"", "\"", ":", " ", "\"", "x", "\\", "n", "\"", "}">>

(***************************************************************************)
(* Properties of the value add_documents_enhanced returns                  *)
(***************************************************************************)
\* the entries the step appended to the collection `name`
Added(name) ==
    SubSeq(collections'[name].entries, Len(collections[name].entries) + 1,
           Len(collections'[name].entries))

\* C17: when add_documents_enhanced returns (count, summary), the bound
\* collection has grown by exactly count entries and no other has changed;
\* count is the total_chunks of every entry added and of the summary, and
\* summary.structure_preserved is the number of the entries added whose
\* contains_structure is true, between 0 and count.
Thm_C17 ==
    [][ (nops' = nops + 1 /\ last'.op = "add_documents_enhanced"
            /\ last'.outcome = "returned") =>
            /\ vectorstore' # "None"
            /\ Len(collections'[vectorstore'].entries)
                  = Len(collections[vectorstore'].entries) + last'.count
            /\ SubSeq(collections'[vectorstore'].entries, 1,
                      Len(collections[vectorstore'].entries))
                  = collections[vectorstore'].entries
            /\ \A other \in CollectionNames \ {vectorstore'} :
                  collections'[other].entries = collections[other].entries
            /\ last'.count > 0
            /\ last'.info.total_chunks = last'.count
            /\ \A n \in 1..Len(Added(vectorstore')) :
                  Added(vectorstore')[n].metadata["total_chunks"] = MInt(last'.count)
            /\ last'.info.structure_preserved
                  = Cardinality({n \in 1..Len(Added(vectorstore')) :
                        Added(vectorstore')[n].metadata["contains_structure"] = MBool(TRUE)})
            /\ last'.info.structure_preserved \in 0..last'.count ]_vars

\* an add returned 2 chunks, one of them structured, into a collection that
\* already held entries
Wit_C17 ==
    /\ last.op = "add_documents_enhanced"
    /\ last.outcome = "returned"
    /\ last.count = 2
    /\ last.info.total_chunks = 2
    /\ last.info.structure_preserved = 1
    /\ vectorstore # "None"
    /\ Len(collections[vectorstore].entries) > 2

(***************************************************************************)
(* Properties of the PerformanceMonitor                                    *)
(***************************************************************************)
\* the last n entries of a sequence, n at most its length
LastN(seq, n) == [k \in 1..n |-> seq[Len(seq) - n + k]]

\* the history is the most recent min(n, max_history) of the n entries
\* recorded since it was last empty, in recording order
MostRecent ==
    /\ Len(mhistory) <= mcap
    /\ mhistory = LastN(recorded, Min(Len(recorded), mcap))

\* C18: whenever no call is inside _add_metrics, the history holds at most
\* max_history entries, and they are the most recent min(n, max_history)
\* of the entries recorded, in recording order.
Claim_C18 == lock = 0 => MostRecent

\* the call of thread t, a call of a wrapped function, is over
MeasuredOver(t) ==
    /\ tpc[t] = "idle"
    /\ tcall[t].kind = "measured"

\* C19: a call of a function wrapped by measure_performance appends one entry
\* to the history, the one for its operation: when the function returned, an
\* entry with success = true and no error message, and the wrapper returns
\* the function's result; when it raised, an entry with success = false and
\* the exception's message, and the exception goes on to the caller.
Thm_C19 ==
    /\ [](\A t \in Threads : MeasuredOver(t) =>
            /\ tappends[t] = 1
            /\ tmetrics[t].operation = tcall[t].operation
            /\ ~tcall[t].raises =>
                  /\ tmetrics[t].success /\ tmetrics[t].error_message = "None"
                  /\ tout[t].kind = "returned" /\ tout[t].value = "result"
            /\ tcall[t].raises =>
                  /\ ~tmetrics[t].success /\ tmetrics[t].error_message = "boom"
                  /\ tout[t].kind = "raised" /\ tout[t].value = "boom")
    /\ [][\A t \in Threads : tappends'[t] = tappends[t] + 1 =>
            mhistory' = Append(mhistory, tmetrics[t])]_vars

\* a wrapped function raised: its entry, a failure, is the newest of the
\* history, and the caller got the exception
Wit_C19 ==
    \E t \in Threads :
        /\ MeasuredOver(t)
        /\ tcall[t].raises
        /\ tout[t].kind = "raised"
        /\ mhistory # <<>>
        /\ mhistory[Len(mhistory)] = tmetrics[t]
        /\ ~mhistory[Len(mhistory)].success

DocumentTypes == {"academic", "technical", "legal"}

\* per type, the number of its keywords found in the text, whatever the case
ScoresOf(text) ==
    [type \in DocumentTypes |->
        KeywordScore(IF type = "academic" THEN academic_keywords
                     ELSE IF type = "technical" THEN technical_keywords
                     ELSE legal_keywords,
                     LowerText(text))]

\* two or more types share the highest score
TiedAtTop(scores) ==
    \E X \in DocumentTypes, Y \in DocumentTypes :
        /\ X # Y /\ scores[X] = scores[Y]
        /\ \A Z \in DocumentTypes : scores[Z] <= scores[X]

\* C22 as stated: whenever two or more of the three types share the highest
\* keyword count (a count of 2 or more included), detect_document_type
\* returns "default"
Claim_C22 ==
    dlabels # <<>> /\ TiedAtTop(ScoresOf(dtext))
        => \A n \in 1..Len(dlabels) : dlabels[n] = "default"

\* C23: detect_document_type returns the type whose count of keywords found
\* is at least 2 and strictly greater than both other counts, returns
\* "default" when no count reaches 2, and returns the same label each time it
\* is called with the same text
Thm_C23 ==
    dlabels # <<>> =>
        LET scores == ScoresOf(dtext)
        IN  /\ \A X \in DocumentTypes :
                  ( /\ scores[X] >= 2
                    /\ \A Y \in DocumentTypes \ {X} : scores[Y] < scores[X] )
                  => \A n \in 1..Len(dlabels) : dlabels[n] = X
            /\ (\A X \in DocumentTypes : scores[X] < 2)
                  => \A n \in 1..Len(dlabels) : dlabels[n] = "default"
            /\ \A m \in 1..Len(dlabels), n \in 1..Len(dlabels) : dlabels[m] = dlabels[n]

\* C23 witness: a text with two legal keywords and one technical keyword has
\* been labelled twice, "legal" both times
Wit_C23 ==
    /\ Len(dlabels) = 2
    /\ ScoresOf(dtext)["legal"] = 2
    /\ ScoresOf(dtext)["technical"] = 1
    /\ dlabels = <<"legal", "legal">>

(***************************************************************************)
(* Properties of the manager's lifecycle and of its collection             *)
(***************************************************************************)
\* the manager holds a collection handle
Ready == vectorstore # "None"

\* C24 as stated: once the manager is Ready it is Ready after every later
\* call, whatever the call's outcome
Claim_C24 == [][Ready => Ready']_vars

\* s is the beginning of t
IsPrefix(s, t) == Len(s) <= Len(t) /\ SubSeq(t, 1, Len(s)) = s

\* C25: a step of the manager leaves every entry of a collection in place and
\* as it was, unless it is a reset_collection of that collection;
\* initialize_vectorstore, get_retriever and search_with_metadata leave the
\* entries unchanged, and an add_documents_enhanced that returns appends the
\* entries it counts to the bound collection
Thm_C25 ==
    [][ \A name \in CollectionNames :
          LET before == collections[name].entries
              after == collections'[name].entries
          IN  /\ \/ IsPrefix(before, after)
                 \/ last'.op = "reset_collection" /\ last'.arg.text = name
              /\ last'.op \in {"initialize_vectorstore", "get_retriever",
                               "search_with_metadata"} => after = before
              /\ last'.op = "add_documents_enhanced" =>
                    Len(after) = Len(before)
                        + (IF last'.outcome = "returned" /\ vectorstore' = name
                           THEN last'.count ELSE 0)
      ]_vars

\* C25 witness: a second document was added to a collection that held
\* entries, and those are still there before the new ones
Wit_C25 ==
    /\ last.op = "add_documents_enhanced" /\ last.outcome = "returned"
    /\ vectorstore = DefaultCollection
    /\ last.count >= 1
    /\ Len(collections[DefaultCollection].entries) > last.count

(***************************************************************************)
(* Properties of the manager's own monitor                                 *)
(***************************************************************************)
\* the operation name under which a call of the manager would be measured
MeasuredAs(o) ==
    IF o = "add_documents_enhanced" THEN "add_documents"
    ELSE IF o = "search_with_metadata" THEN "search_documents"
    ELSE o

\* the entry appended last
LatestEntry(history) == history[Len(history)]

\* C27 as stated: every call of the manager that starts doing work appends
\* an entry for it to the monitor's history
Claim_C27 ==
    [][ io' # {} =>
          /\ Len(metrics_history') > Len(metrics_history)
          /\ LatestEntry(metrics_history').operation = MeasuredAs(last'.op)
      ]_vars

\* C30 as stated: the entry of an initialize_vectorstore that returned False
\* and the entry of a search whose lookup raised are recorded with
\* success = false, and those of calls that did not fail with success = true
Claim_C30 ==
    [][ /\ last'.op = "initialize_vectorstore" =>
              (LatestEntry(metrics_history').success <=> last'.count = 1)
        /\ last'.op = "search_with_metadata" /\ "lookup" \in io' =>
              (LatestEntry(metrics_history').success <=> "lookup raised" \notin io')
      ]_vars

(***************************************************************************)
(* Properties of embed_documents, batch by batch                           *)
(***************************************************************************)
\* ceil(n / 10)
BatchCount(n) == (n + 9) \div 10

RECURSIVE TotalRequests(_)
TotalRequests(bs) ==
    IF bs = <<>> THEN 0 ELSE Head(bs).requests + TotalRequests(Tail(bs))

RECURSIVE AllVectors(_)
AllVectors(bs) == IF bs = <<>> THEN <<>> ELSE Head(bs).vectors \o AllVectors(Tail(bs))

\* the next request is the first of its batch
BatchNotBegun == batches = <<>> \/ batches[Len(batches)].over

\* C28: embed_documents takes the batches of at most 10 consecutive texts in
\* input order; each batch begins at attempt 0 with 3 attempts left and
\* issues 1 to 3 requests, whatever became of the batches before it; a
\* fallback covers the texts of its own batch only and the call goes on with
\* the next batch; the result is the batches' values in order, and a call
\* that returns has issued between ceil(n/10) and 3*ceil(n/10) requests
Thm_C28 ==
    op = "embed_documents" =>
        LET n == Len(texts)
        IN  /\ \A k \in 1..Len(batches) :
                  /\ batches[k].offset = 10 * (k - 1)
                  /\ batches[k].offset < n
                  /\ batches[k].requests \in 1..3
                  /\ k < Len(batches) => batches[k].over
                  /\ batches[k].fallback =>
                        batches[k].vectors =
                            GenerateFakeEmbeddings(
                                SubSeq(texts, 10 * (k - 1) + 1, Min(10 * k, n)))
            /\ pc = "call" /\ BatchNotBegun => attempt = 0 /\ max_retries - attempt = 3
            /\ pc = "call" => Len(batches) <= BatchCount(n)
            /\ pc = "done" /\ ~raised =>
                  /\ Len(batches) = BatchCount(n)
                  /\ \A k \in 1..Len(batches) : batches[k].over
                  /\ TotalRequests(batches) >= BatchCount(n)
                  /\ TotalRequests(batches) <= 3 * BatchCount(n)
                  /\ result = AllVectors(batches)

\* C28 witness: a call for 11 texts has returned; its first batch fell back
\* after 3 requests, its second was then answered at its third request, and
\* the result holds 10 fallback vectors followed by a remote one
Wit_C28 ==
    /\ op = "embed_documents" /\ pc = "done" /\ ~raised
    /\ Len(texts) = 11 /\ Len(batches) = 2
    /\ batches[1].fallback /\ batches[1].requests = 3
    /\ ~batches[2].fallback /\ batches[2].requests = 3
    /\ Len(result) = 11
    /\ result[1] = GenerateFakeEmbeddings(<<texts[1]>>)[1]
    /\ result[11] = RemoteVec(texts[11])

(***************************************************************************)
(* The chunks of smart_split put together again                            *)
(***************************************************************************)
\* ''.join(chunks)
RECURSIVE ConcatChunks(_)
ConcatChunks(chunks) ==
    IF chunks = <<>> THEN <<>> ELSE Head(chunks) \o ConcatChunks(Tail(chunks))

\* the characters of s that are not whitespace, in order
NonSpaceOf(s) == SelectSeq(s, LAMBDA c : ~IsSpace(c))

\* C26 as stated: where split_text cut the preprocessed text without overlap,
\* the chunks smart_split returns, put together in order, are the
\* preprocessed text up to whitespace: no other character is lost
Claim_C26 ==
    (spc = "done" /\ ConcatChunks(sraw) = PreprocessText(stext)) =>
        NonSpaceOf(ConcatChunks(schunks)) = NonSpaceOf(PreprocessText(stext))

(***************************************************************************)
(* EnhancedDocumentChatBot.process_document_enhanced (app/main.py).  The   *)
(* handler calls the manager several times; each of these calls is a step, *)
(* and apc is the call the handler is about to make.  Every exception is   *)
(* caught by the handler, which then returns an error message.             *)
(***************************************************************************)
MinKDocuments == 1
MaxKDocuments == 20

\* InputValidator.validate_k_documents
ValidateKDocuments(k) ==
    IF ~IsInstanceInt(k)
    THEN [valid |-> FALSE, error |-> "Le nombre de documents doit être un entier"]
    ELSE IF k.value < MinKDocuments
    THEN [valid |-> FALSE, error |-> "Nombre de documents minimum: 1"]
    ELSE IF k.value > MaxKDocuments
    THEN [valid |-> FALSE, error |-> "Nombre de documents maximum: 20"]
    ELSE [valid |-> TRUE, error |-> ""]

\* the files uploaded: their names and the text extracted from them
UploadedFiles ==
    { [filename |-> "a.txt", text |-> <<"a", "a", "a">>],
      [filename |-> "b.txt", text |-> <<"A", ".", "a">>],
      [filename |-> "e.txt", text |-> <<" ">>] }
\* the chunk sizes and the k given with them, valid and not
AppChunkSizes == {PyInt(MinChunkSize - 1), PyInt(MinChunkSize)}
AppKs == {PyInt(0), PyInt(1)}

\* the handler returns an error message: except Exception as e (or an early
\* return of a validation message)
ReturnsError ==
    /\ apc' = "idle"
    /\ areq' = NoRequest
    /\ astatus' = "error"
    /\ UNCHANGED <<current_document, document_processed, ingested>>

\* the handler goes on to its next call
GoesOn(next, request) ==
    /\ apc' = next
    /\ areq' = request
    /\ UNCHANGED <<current_document, document_processed, ingested, astatus>>

\* process_document_enhanced up to its first call of the manager; `early` is
\* what fails before it: "file" (validate_file), "api_key" (validate_api_key),
\* "llm" (setup_llm raises), "read" (process_uploaded_file raises), or "none"
ProcessDocumentEnhanced(file, chunk_size, k, early) ==
    /\ apc = "idle"
    /\ nprocess < MaxProcess
    /\ nprocess' = nprocess + 1
    /\ UNCHANGED storeVars
    /\ IF early # "none" THEN ReturnsError
       ELSE GoesOn("reset_collection",
                   [filename |-> file.filename, text |-> file.text,
                    chunk_size |-> chunk_size, k |-> k, chunks |-> <<>>])

\* self.chat_engine.vectorstore_manager.reset_collection()
AppResetCollection(fails) ==
    /\ apc = "reset_collection"
    /\ ResetCollection(DefaultCollection, fails)
    /\ nops' = nops + 1
    /\ nprocess' = nprocess
    /\ IF last'.outcome = "raised" THEN ReturnsError
       ELSE GoesOn("add_documents_enhanced", areq)

\* self.chat_engine.memory.clear_history() (no state of this model), then
\* vectorstore_manager.add_documents_enhanced(text_content, filename,
\* chunk_size, chunk_overlap)
AppAddDocuments(cuts, init_ok, add_ok) ==
    /\ apc = "add_documents_enhanced"
    /\ AddDocumentsEnhanced(areq.text, areq.chunk_size, cuts, 0, init_ok, add_ok)
    /\ nops' = nops + 1
    /\ nprocess' = nprocess
    /\ IF last'.outcome = "raised" THEN ReturnsError
       ELSE GoesOn("setup_chain_with_template",
                   [areq EXCEPT !.chunks = collections'[vectorstore'].entries])

\* chat_engine.setup_chain_with_template(k_documents, 'auto') up to and with
\* its search_with_metadata("test", k=1)
AppSetupChain(init_ok, lookup_ok) ==
    /\ apc = "setup_chain_with_template"
    /\ nprocess' = nprocess
    /\ IF vectorstore = "None" \/ ~ValidateKDocuments(areq.k).valid
       THEN \* raise ValueError("VectorStore non initialisé" / "Paramètre k invalide")
            /\ UNCHANGED storeVars
            /\ ReturnsError
       ELSE /\ SearchWithMetadata(<<"t", "e", "s", "t">>, PyInt(1), init_ok, lookup_ok)
            /\ nops' = nops + 1
            /\ GoesOn("get_retriever", areq)

\* the rest of setup_chain_with_template: get_retriever(k=k_documents) and
\* the chain (chain_ok: the library builds it without raising); then the
\* handler's update of its state, and its return
AppGetRetriever(init_ok, chain_ok) ==
    /\ apc = "get_retriever"
    /\ GetRetriever(areq.k, init_ok)
    /\ nops' = nops + 1
    /\ nprocess' = nprocess
    /\ IF last'.outcome = "raised" \/ ~chain_ok THEN ReturnsError
       ELSE /\ current_document' = areq.filename
            /\ document_processed' = TRUE
            /\ ingested' = areq.chunks
            /\ apc' = "idle"
            /\ areq' = NoRequest
            /\ astatus' = "ok"

NextApp ==
    \/ \E file \in UploadedFiles, chunk_size \in AppChunkSizes, k \in AppKs,
          early \in {"none", "file", "api_key", "llm", "read"} :
          ProcessDocumentEnhanced(file, chunk_size, k, early)
    \/ \E fails \in {"none", "client", "delete", "create"} : AppResetCollection(fails)
    \/ \E cuts \in StoreCuts, init_ok \in BOOLEAN, add_ok \in BOOLEAN :
          AppAddDocuments(cuts, init_ok, add_ok)
    \/ \E init_ok \in BOOLEAN, lookup_ok \in BOOLEAN : AppSetupChain(init_ok, lookup_ok)
    \/ \E init_ok \in BOOLEAN, chain_ok \in BOOLEAN : AppGetRetriever(init_ok, chain_ok)

\* the application, one process_document_enhanced after the other
SpecApp ==
    /\ Init /\ hashFn = [t \in Texts |-> 7]
    /\ [][NextApp /\ UNCHANGED <<embedVars, splitVars, filterVars, monVars, detectVars,
                                 batches, concVars>>]_vars

\* C29 as stated: whenever no call is running and document_processed is true,
\* the collection holds exactly the chunks stored by the call that set
\* current_document
Claim_C29 ==
    (apc = "idle" /\ document_processed) =>
        /\ collections[DefaultCollection].exists
        /\ collections[DefaultCollection].entries = ingested

(***************************************************************************)
(* One EnhancedVectorStoreManager called by several threads.  The methods  *)
(* take no lock: a thread runs a method statement by statement, and the    *)
(* statements of the threads interleave.  Here every library call          *)
(* succeeds unless the collection it needs is gone, and the monitor's      *)
(* history (which has its own lock) is left out.                           *)
(***************************************************************************)
ManagerMethods == {"add_documents_enhanced", "search_with_metadata", "reset_collection"}

\* a thread enters a method: nothing is waited for.  add and search begin
\* with `if not self.vectorstore`, reset with client.delete_collection
EnterMethod(t, method) ==
    /\ cpc[t] = "idle"
    /\ ccalls < MaxCalls
    /\ ccalls' = ccalls + 1
    /\ cop' = [cop EXCEPT ![t] = method]
    /\ cout' = [cout EXCEPT ![t] = "none"]
    /\ cpc' = [cpc EXCEPT ![t] = IF method = "reset_collection" THEN "delete_collection"
                                 ELSE "if not self.vectorstore"]
    /\ UNCHANGED <<vectorstore, collections>>

\* if not self.vectorstore:
TestVectorstore(t) ==
    /\ cpc[t] = "if not self.vectorstore"
    /\ cpc' = [cpc EXCEPT ![t] = IF vectorstore = "None" THEN "initialize_vectorstore"
                                 ELSE "use"]
    /\ UNCHANGED <<vectorstore, collections, cop, cout, ccalls>>

\* success = self.initialize_vectorstore()
AutoInitialize(t) ==
    /\ cpc[t] = "initialize_vectorstore"
    /\ vectorstore' = DefaultCollection
    /\ collections' = Opened(collections, DefaultCollection)
    /\ cpc' = [cpc EXCEPT ![t] = "use"]
    /\ UNCHANGED <<cop, cout, ccalls>>

\* self.vectorstore.add_documents(filtered_documents), or
\* self.vectorstore.similarity_search(query, k=k); the library raises when
\* the collection is gone, which add lets out and search turns into []
UseVectorstore(t) ==
    /\ cpc[t] = "use"
    /\ LET gone == vectorstore = "None" \/ ~collections[vectorstore].exists
       IN  /\ collections' =
                 IF cop[t] = "add_documents_enhanced" /\ ~gone
                 THEN [collections EXCEPT ![vectorstore].entries =
                          Append(@, [page_content |-> <<"a">>, added_by |-> t])]
                 ELSE collections
           /\ cout' = [cout EXCEPT ![t] =
                 IF cop[t] = "add_documents_enhanced" /\ gone THEN "raised"
                 ELSE "returned"]
    /\ cpc' = [cpc EXCEPT ![t] = "idle"]
    /\ UNCHANGED <<vectorstore, cop, ccalls>>

\* client.delete_collection(collection_name), its ValueError passed over
DeleteCollection(t) ==
    /\ cpc[t] = "delete_collection"
    /\ collections' = [collections EXCEPT ![DefaultCollection] =
                          [exists |-> FALSE, entries |-> <<>>]]
    /\ cpc' = [cpc EXCEPT ![t] = "Chroma"]
    /\ UNCHANGED <<vectorstore, cop, cout, ccalls>>

\* self.vectorstore = Chroma(client=client, collection_name=..., ...)
CreateCollection(t) ==
    /\ cpc[t] = "Chroma"
    /\ vectorstore' = DefaultCollection
    /\ collections' = Opened(collections, DefaultCollection)
    /\ cout' = [cout EXCEPT ![t] = "returned"]
    /\ cpc' = [cpc EXCEPT ![t] = "idle"]
    /\ UNCHANGED <<cop, ccalls>>

NextThreads ==
    \E t \in Threads :
        \/ \E method \in ManagerMethods : EnterMethod(t, method)
        \/ TestVectorstore(t)
        \/ AutoInitialize(t)
        \/ UseVectorstore(t)
        \/ DeleteCollection(t)
        \/ CreateCollection(t)

\* the manager used by the threads
SpecThreads ==
    /\ Init /\ hashFn = [t \in Texts |-> 7]
    /\ [][NextThreads /\ UNCHANGED <<embedVars, splitVars, filterVars, monVars, detectVars,
                                     batches, appVars, metrics_history, last, io, nops>>]_vars

\* thread t is inside the method
Inside(t, method) == cpc[t] # "idle" /\ cop[t] = method

\* C21 as stated: no two threads are at once inside add_documents_enhanced or
\* reset_collection, no thread is inside search_with_metadata while another
\* is inside reset_collection, and no two threads that found the store
\* unopened are both about to open it
Claim_C21 ==
    \A t \in Threads : \A u \in Threads \ {t} :
        /\ ~( /\ Inside(t, "add_documents_enhanced") \/ Inside(t, "reset_collection")
              /\ Inside(u, "add_documents_enhanced") \/ Inside(u, "reset_collection") )
        /\ ~(Inside(t, "search_with_metadata") /\ Inside(u, "reset_collection"))
        /\ ~(cpc[t] = "initialize_vectorstore" /\ cpc[u] = "initialize_vectorstore")

====
